---------------------------- MODULE Spec2Model ----------------------------
(***************************************************************************)
(* A model of open_tool_speex: the G.711 A-law codec (direct computation   *)
(* and table driven), and the frame pipeline that reads near-end and       *)
(* far-end A-law streams, pads short final frames, decodes, dispatches on  *)
(* the processing mode to the SpeexDSP wrappers, encodes and writes.       *)
(***************************************************************************)
EXTENDS Integers, Naturals, Sequences, FiniteSets, TLC

(***************************************************************************)
(* Machine integers                                                        *)
(***************************************************************************)

\* the absolute value
Abs(v) == IF v < 0 THEN -v ELSE v

\* uint8 and int16 value ranges of Go
Uint8 == 0 .. 255
Int16 == -32768 .. 32767

\* Go's conversion uint8(v): the low eight bits
ToUint8(v) == v % 256

\* Go's conversion int16(v): two's complement wrap to 16 bits
ToInt16(v) ==
    LET m == v % 65536
    IN  IF m >= 32768 THEN m - 65536 ELSE m

\* 2^n
RECURSIVE Pow2(_)
Pow2(n) == IF n = 0 THEN 1 ELSE 2 * Pow2(n - 1)

\* Go's v >> n on a signed integer: arithmetic shift, rounding down
Shr(v, n) == v \div Pow2(n)

\* Go's v << n (no truncation: the callers' operands are int)
Shl(v, n) == v * Pow2(n)

\* bit n of a non-negative integer
Bit(v, n) == (v \div Pow2(n)) % 2

\* a ^ b on non-negative integers of n bits
RECURSIVE XorN(_, _, _)
XorN(a, b, n) ==
    IF n = 0 THEN 0
    ELSE ((a + b) % 2) + 2 * XorN(a \div 2, b \div 2, n - 1)

\* a & b on non-negative integers of n bits
RECURSIVE AndN(_, _, _)
AndN(a, b, n) ==
    IF n = 0 THEN 0
    ELSE ((a % 2) * (b % 2)) + 2 * AndN(a \div 2, b \div 2, n - 1)

\* a | b on non-negative integers of n bits
RECURSIVE OrN(_, _, _)
OrN(a, b, n) ==
    IF n = 0 THEN 0
    ELSE (IF (a % 2) + (b % 2) > 0 THEN 1 ELSE 0) + 2 * OrN(a \div 2, b \div 2, n - 1)

Xor8(a, b) == XorN(a, b, 8)
And16(a, b) == AndN(a, b, 16)
Or16(a, b) == OrN(a, b, 16)

(***************************************************************************)
(* The direct-computation codec (package audio)                            *)
(***************************************************************************)

SIGN_BIT == 128
QUANT_MASK == 15
NSEGS == 8
SEG_SHIFT == 4
SEG_MASK == 112

segAend == << 31, 63, 127, 255, 511, 1023, 2047, 4095 >>

\* search: the first index i < size with val <= table[i], or size
RECURSIVE searchFrom(_, _, _, _)
searchFrom(val, table, size, i) ==
    IF i >= size THEN size
    ELSE IF val <= table[i + 1] THEN i
    ELSE searchFrom(val, table, size, i + 1)

\* a variant whose loop starts at the second table entry
search_FromSecond(val, table, size) == searchFrom(val, table, size, 1)

search(val, table, size) == searchFrom(val, table, size, 0)

\* Linear2Alaw without the special case of the two lowest segments: the
\* quantization field is always taken at shift seg
Linear2Alaw_ShiftBySeg(pcmVal) ==
    LET shifted == ToInt16(Shr(pcmVal, 3))
        mask == IF shifted >= 0 THEN 213 ELSE 85
        mag == IF shifted >= 0 THEN shifted ELSE ToInt16(-shifted - 1)
        seg == search(mag, segAend, NSEGS)
        aval == Or16(Shl(seg, SEG_SHIFT), And16(Shr(mag, seg), QUANT_MASK))
    IN  IF seg >= 8 THEN Xor8(127, mask)
        ELSE ToUint8(Xor8(aval, mask))

\* Linear2Alaw treating the samples 0 .. 7 as negative
Linear2Alaw_ZeroIsNegative(pcmVal) ==
    LET shifted == ToInt16(Shr(pcmVal, 3))
        mask == IF shifted > 0 THEN 213 ELSE 85
        mag == IF shifted > 0 THEN shifted ELSE ToInt16(-shifted - 1)
        seg == search(mag, segAend, NSEGS)
        quant == IF seg < 2 THEN And16(Shr(mag, 1), QUANT_MASK)
                 ELSE And16(Shr(mag, seg), QUANT_MASK)
        aval == Or16(Shl(seg, SEG_SHIFT), quant)
    IN  IF seg >= 8 THEN Xor8(127, mask)
        ELSE ToUint8(Xor8(aval, mask))

\* Linear2Alaw: 16-bit linear PCM to 8-bit A-law
Linear2Alaw(pcmVal) ==
    LET shifted == ToInt16(Shr(pcmVal, 3))
        mask == IF shifted >= 0 THEN 213 ELSE 85
        mag == IF shifted >= 0 THEN shifted ELSE ToInt16(-shifted - 1)
        seg == search(mag, segAend, NSEGS)
        quant == IF seg < 2 THEN And16(Shr(mag, 1), QUANT_MASK)
                 ELSE And16(Shr(mag, seg), QUANT_MASK)
        aval == Or16(Shl(seg, SEG_SHIFT), quant)
    IN  IF seg >= 8 THEN Xor8(127, mask)
        ELSE ToUint8(Xor8(aval, mask))

\* Alaw2Linear without the half-step added in segment 0
Alaw2Linear_NoHalfStep(aVal) ==
    LET a == Xor8(aVal, 85)
        t0 == Shl(And16(a, QUANT_MASK), 4)
        seg == Shr(And16(a, SEG_MASK), SEG_SHIFT)
        t == CASE seg = 0 -> t0
               [] seg = 1 -> t0 + 264
               [] OTHER -> Shl(t0 + 264, seg - 1)
    IN  IF And16(a, SIGN_BIT) # 0 THEN ToInt16(t) ELSE ToInt16(-t)

\* Alaw2Linear taking the sign from the lowest bit of the code
Alaw2Linear_SignFromLowBit(aVal) ==
    LET a == Xor8(aVal, 85)
        t0 == Shl(And16(a, QUANT_MASK), 4)
        seg == Shr(And16(a, SEG_MASK), SEG_SHIFT)
        t == CASE seg = 0 -> t0 + 8
               [] seg = 1 -> t0 + 264
               [] OTHER -> Shl(t0 + 264, seg - 1)
    IN  IF And16(aVal, 1) # 0 THEN ToInt16(t) ELSE ToInt16(-t)

\* Alaw2Linear: 8-bit A-law to 16-bit linear PCM
Alaw2Linear(aVal) ==
    LET a == Xor8(aVal, 85)
        t0 == Shl(And16(a, QUANT_MASK), 4)
        seg == Shr(And16(a, SEG_MASK), SEG_SHIFT)
        t == CASE seg = 0 -> t0 + 8
               [] seg = 1 -> t0 + 264
               [] OTHER -> Shl(t0 + 264, seg - 1)
    IN  IF And16(a, SIGN_BIT) # 0 THEN ToInt16(t) ELSE ToInt16(-t)

(***************************************************************************)
(* The table-driven codec (package main, alaw.go)                          *)
(***************************************************************************)

alawDecodeTable ==
    << -5504, -5248, -6016, -5760, -4480, -4224, -4992, -4736,
       -7552, -7296, -8064, -7808, -6528, -6272, -7040, -6784,
       -2752, -2624, -3008, -2880, -2240, -2112, -2496, -2368,
       -3776, -3648, -4032, -3904, -3264, -3136, -3520, -3392,
       -22016, -20992, -24064, -23040, -17920, -16896, -19968, -18944,
       -30208, -29184, -32256, -31232, -26112, -25088, -28160, -27136,
       -11008, -10496, -12032, -11520, -8960, -8448, -9984, -9472,
       -15104, -14592, -16128, -15616, -13056, -12544, -14080, -13568,
       -344, -328, -376, -360, -280, -264, -312, -296,
       -472, -456, -504, -488, -408, -392, -440, -424,
       -88, -72, -120, -104, -24, -8, -56, -40,
       -216, -200, -248, -232, -152, -136, -184, -168,
       -1376, -1312, -1504, -1440, -1120, -1056, -1248, -1184,
       -1888, -1824, -2016, -1952, -1632, -1568, -1760, -1696,
       -688, -656, -752, -720, -560, -528, -624, -592,
       -944, -912, -1008, -976, -816, -784, -880, -848,
       5504, 5248, 6016, 5760, 4480, 4224, 4992, 4736,
       7552, 7296, 8064, 7808, 6528, 6272, 7040, 6784,
       2752, 2624, 3008, 2880, 2240, 2112, 2496, 2368,
       3776, 3648, 4032, 3904, 3264, 3136, 3520, 3392,
       22016, 20992, 24064, 23040, 17920, 16896, 19968, 18944,
       30208, 29184, 32256, 31232, 26112, 25088, 28160, 27136,
       11008, 10496, 12032, 11520, 8960, 8448, 9984, 9472,
       15104, 14592, 16128, 15616, 13056, 12544, 14080, 13568,
       344, 328, 376, 360, 280, 264, 312, 296,
       472, 456, 504, 488, 408, 392, 440, 424,
       88, 72, 120, 104, 24, 8, 56, 40,
       216, 200, 248, 232, 152, 136, 184, 168,
       1376, 1312, 1504, 1440, 1120, 1056, 1248, 1184,
       1888, 1824, 2016, 1952, 1632, 1568, 1760, 1696,
       688, 656, 752, 720, 560, 528, 624, 592,
       944, 912, 1008, 976, 816, 784, 880, 848 >>

\* the segment loop for pcm >= 256: seg counts down from 8 in a uint8
RECURSIVE segDown(_, _, _)
segDown(pcm, n, seg) ==
    IF n < 0 THEN seg
    ELSE LET s == ToUint8(seg - 1)
         IN  IF Bit(pcm, n) # 0 THEN s ELSE segDown(pcm, n - 1, s)

\* the segment loop for pcm < 256: seg counts up from 1, testing bits 5..0
RECURSIVE segUp(_, _, _)
segUp(pcm, n, seg) ==
    IF n < 0 THEN seg
    ELSE LET s == ToUint8(seg + 1)
         IN  IF Bit(pcm, n) # 0 THEN s ELSE segUp(pcm, n - 1, s)

\* pcm16ToAlawDirect: the encoder the table is built from
pcm16ToAlawDirect(pcmIn) ==
    LET mask == IF pcmIn >= 0 THEN 0 ELSE 128
        neg == Shr(ToInt16(ToInt16(-pcmIn) - 1), 4)
        pcm == IF pcmIn >= 0 THEN Shr(pcmIn, 4)
               ELSE IF neg < 0 THEN 2047 ELSE neg
        seg == IF pcm >= 256 THEN segDown(pcm, 8, 8) ELSE segUp(pcm, 5, 1)
        alaw == ToUint8(Or16(ToUint8(Shl(seg, 4)), ToUint8(And16(Shr(pcm, seg + 3), 15))))
    IN  IF seg >= 8 THEN Xor8(127, mask)
        ELSE Xor8(Xor8(alaw, 85), mask)

\* alawEncodeTable as init() fills it: entry i is pcm16ToAlawDirect(int16(i))
alawEncodeTable(i) == pcm16ToAlawDirect(ToInt16(i))

\* a table lookup that is one entry off
AlawToPCM16_PreviousEntry(alaw) == alawDecodeTable[IF alaw = 0 THEN 1 ELSE alaw]

\* AlawToPCM16 of alaw.go: table lookup
AlawToPCM16(alaw) == alawDecodeTable[alaw + 1]

\* PCM16ToAlaw of alaw.go: lookup with the index clamped to 4095
PCM16ToAlaw(pcm) ==
    IF pcm >= 0
    THEN alawEncodeTable(IF pcm >= 4096 THEN 4095 ELSE pcm)
    ELSE LET m == ToInt16(ToInt16(-pcm) - 1)
         IN  Xor8(alawEncodeTable(IF m >= 4096 THEN 4095 ELSE m), 128)

\* the two codec implementations of the repository
CodecImpls == { "direct", "table" }

\* the scalar decoder and encoder of an implementation
Decode(impl, b) == IF impl = "direct" THEN Alaw2Linear(b) ELSE AlawToPCM16(b)

\* a variant that always takes the table-driven encoder
Encode_TableOnly(impl, x) == PCM16ToAlaw(x)

Encode(impl, x) == IF impl = "direct" THEN Linear2Alaw(x) ELSE PCM16ToAlaw(x)

(***************************************************************************)
(* Buffer conversion                                                       *)
(***************************************************************************)

\* AlawBufferToPCM16: element-wise decode up to the shorter length
AlawBufferToPCM16(impl, alawData, pcmData) ==
    [i \in 1 .. Len(pcmData) |->
        IF i <= Len(alawData) THEN Decode(impl, alawData[i]) ELSE pcmData[i]]

\* PCM16BufferToAlaw: element-wise encode up to the shorter length
\* a variant that converts the whole source whatever the destination holds
PCM16BufferToAlaw_WholeSource(impl, pcmData, alawData) ==
    [i \in 1 .. Len(pcmData) |-> Encode(impl, pcmData[i])]

PCM16BufferToAlaw(impl, pcmData, alawData) ==
    [i \in 1 .. Len(alawData) |->
        IF i <= Len(pcmData) THEN Encode(impl, pcmData[i]) ELSE alawData[i]]

(***************************************************************************)
(* Configuration and mode policy                                           *)
(***************************************************************************)

ModeBypass == 0
ModeTestAlaw == 1
ModeNSOnly == 2
ModeAECOnly == 3
ModeNSFirst == 4
ModeAECFirst == 5

Modes == { ModeBypass, ModeTestAlaw, ModeNSOnly, ModeAECOnly, ModeNSFirst, ModeAECFirst }

\* the entry points: Processor.Process, Processor.processAudio (the frame loop
\* called with engine instances of the caller), and processAEC of main.go
Entries == { "Process", "processAudio", "processAEC" }

\* processAEC has no -test-alaw flag; main() admits at most one of the others
ModesOf(e) == IF e = "processAEC" THEN Modes \ { ModeTestAlaw } ELSE Modes

defaultSampleRate == 16000
defaultEchoTailMs == 200

\* a number of seconds as a fraction, standing for a float64
Seconds(n, d) == [ num |-> n, den |-> d ]

\* the default -progress-sec
defaultProgressSec == Seconds(16, 1)

\* the filter length derived from the defaults
defaultFilterLen == (defaultSampleRate * defaultEchoTailMs) \div 1000

\* a variant that forgets the codec test mode
needsSpeakerFile_NoTestAlaw(cfg) ==
    /\ cfg.Mode # ModeNSOnly
    /\ cfg.Mode # ModeBypass

\* Processor.needsSpeakerFile
needsSpeakerFile(cfg) ==
    /\ cfg.Mode # ModeNSOnly
    /\ cfg.Mode # ModeBypass
    /\ cfg.Mode # ModeTestAlaw

\* processAEC: !nsOnly && !bypass
speakerNeeded(cfg) ==
    /\ ~(cfg.Mode = ModeNSOnly)
    /\ ~(cfg.Mode = ModeBypass)

\* whether the entry point opens and reads the far-end stream
NeedsSpeaker(e, cfg) ==
    IF e = "processAEC" THEN speakerNeeded(cfg) ELSE needsSpeakerFile(cfg)

\* a variant that ignores the delay setting
getAECSpeakerFrame_Current(cfg, speakerPcm, prevSpeakerPcm) ==
    speakerPcm

\* a variant that always hands over the retained frame
getAECSpeakerFrame_Previous(cfg, speakerPcm, prevSpeakerPcm) ==
    prevSpeakerPcm

\* Processor.getAECSpeakerFrame
getAECSpeakerFrame(cfg, speakerPcm, prevSpeakerPcm) ==
    IF cfg.UsePrevSpeaker THEN prevSpeakerPcm ELSE speakerPcm

\* a variant that leaves the tail of a short frame as it was
zeroPadFrames_NoPad(e, cfg, mic, micN, spk, spkN) ==
    [ mic |-> mic, spk |-> spk ]

\* Processor.zeroPadFrames: the tail of a short frame becomes A-law silence
zeroPadFrames(e, cfg, mic, micN, spk, spkN) ==
    [ mic |-> [i \in 1 .. Len(mic) |->
                 IF micN < cfg.FrameSize /\ i > micN /\ i <= cfg.FrameSize
                 THEN 213 ELSE mic[i]],
      spk |-> [i \in 1 .. Len(spk) |->
                 IF NeedsSpeaker(e, cfg) /\ spkN < cfg.FrameSize
                    /\ i > spkN /\ i <= cfg.FrameSize
                 THEN 213 ELSE spk[i]] ]

\* int(x + 0.5) for the fraction x = n/d, d > 0: Go truncates toward zero
RoundHalfUp(n, d) ==
    LET t == 2 * n + d
    IN  IF t >= 0 THEN t \div (2 * d) ELSE -((-t) \div (2 * d))

\* fmt "%.1f" of the fraction n/d >= 0, in tenths: the nearest tenth, the even
\* one on a tie
FormatTenths(n, d) ==
    LET q == (10 * n) \div d
        r == (10 * n) % d
    IN  IF 2 * r > d THEN q + 1
        ELSE IF 2 * r < d THEN q
        ELSE IF q % 2 = 0 THEN q ELSE q + 1

\* a variant that truncates the interval instead of rounding it
logProgress_Truncated(cfg, count) ==
    IF cfg.ProgressSec.num > 0
    THEN LET raw == (cfg.SampleRate * cfg.ProgressSec.num)
                        \div (cfg.FrameSize * cfg.ProgressSec.den)
             framesPerInterval == IF raw <= 0 THEN 1 ELSE raw
         IN  IF count % framesPerInterval = 0
             THEN << [ frames |-> count,
                       duration |-> Seconds(count * cfg.FrameSize, cfg.SampleRate),
                       text |-> FormatTenths(count * cfg.FrameSize, cfg.SampleRate) ] >>
             ELSE << >>
    ELSE << >>

\* Processor.logProgress (and the same lines of processAEC): the progress
\* lines printed after the frame counter became count
logProgress(cfg, count) ==
    IF cfg.ProgressSec.num > 0
    THEN LET raw == RoundHalfUp(cfg.SampleRate * cfg.ProgressSec.num,
                                cfg.FrameSize * cfg.ProgressSec.den)
             framesPerInterval == IF raw <= 0 THEN 1 ELSE raw
         IN  IF count % framesPerInterval = 0
             THEN << [ frames |-> count,
                       duration |-> Seconds(count * cfg.FrameSize, cfg.SampleRate),
                       text |-> FormatTenths(count * cfg.FrameSize, cfg.SampleRate) ] >>
             ELSE << >>
    ELSE << >>

(***************************************************************************)
(* The SpeexDSP wrappers                                                   *)
(***************************************************************************)

\* an engine instance: absent, created, or destroyed
NoEngine == [ state |-> "nil", frameSize |-> 0, destroys |-> 0 ]
LiveEngine(n) == [ state |-> "live", frameSize |-> n, destroys |-> 0 ]

\* the nil slice a wrapper returns on a length mismatch
NilFrame == [ ok |-> FALSE, frame |-> << >> ]

\* sample values the DSP library may leave in an output frame
EngineSamples == { 1000 }

\* what the library can produce for an input frame: it is opaque, so the
\* output is the input unchanged or a constant frame
EngineOutputs(n, in) ==
    { [ ok |-> TRUE, frame |-> in ] }
    \cup { [ ok |-> TRUE, frame |-> [i \in 1 .. n |-> x] ] : x \in EngineSamples }

\* AEC.ProcessFrame: echo cancellation and noise suppression in one call
AECProcessFrame(eng, micFrame, speakerFrame) ==
    IF Len(micFrame) # eng.frameSize \/ Len(speakerFrame) # eng.frameSize
    THEN { NilFrame }
    ELSE EngineOutputs(eng.frameSize, micFrame)

\* AEC.ProcessFrameEchoOnly: echo cancellation only
AECProcessFrameEchoOnly(eng, micFrame, speakerFrame) ==
    IF Len(micFrame) # eng.frameSize \/ Len(speakerFrame) # eng.frameSize
    THEN { NilFrame }
    ELSE EngineOutputs(eng.frameSize, micFrame)

\* Preprocessor.ProcessFrame: noise suppression
NSProcessFrame(eng, inputFrame) ==
    IF Len(inputFrame) # eng.frameSize
    THEN { NilFrame }
    ELSE EngineOutputs(eng.frameSize, inputFrame)

\* NewAEC: rejects non-positive parameters; the library may fail to allocate
NewAEC(frameSize, filterLen, sampleRate) ==
    IF frameSize <= 0 \/ filterLen <= 0 \/ sampleRate <= 0
    THEN { NoEngine }
    ELSE { NoEngine, LiveEngine(frameSize) }

\* NewPreprocessorWithConfig
NewPreprocessorWithConfig(frameSize, sampleRate) ==
    IF frameSize <= 0 \/ sampleRate <= 0
    THEN { NoEngine }
    ELSE { NoEngine, LiveEngine(frameSize) }

\* Destroy of either wrapper
Destroy(eng) ==
    IF eng.state = "nil" THEN eng
    ELSE [ eng EXCEPT !.state = "destroyed", !.destroys = @ + 1 ]

(***************************************************************************)
(* Frame processing                                                        *)
(***************************************************************************)

\* make([]T, n): a zeroed buffer
Zeroed(n) == [i \in 1 .. n |-> 0]

\* one engine call, as recorded for the iteration: the operation, the frames
\* handed to it and the frame it returned (empty for nil)
Call(op, near, far, out) ==
    [ op |-> op, near |-> near, far |-> far, out |-> out ]

\* a frame that processFrame returns, with the engine calls it made
Done(impl, cfg, pcm, cs) ==
    [ ok |-> TRUE, msg |-> "", calls |-> cs, encodes |-> 1,
      out |-> PCM16BufferToAlaw(impl, pcm, Zeroed(cfg.FrameSize)) ]

\* an error that processFrame returns
Failed(m, cs) ==
    [ ok |-> FALSE, msg |-> m, calls |-> cs, encodes |-> 0, out |-> << >> ]

\* a variant whose NSFirst branch cancels echo before it suppresses noise
processFrame_EchoBeforeNS(cfg, impl, micPcm, speakerPcm, prevSpeakerPcm, aecE, nsE) ==
    LET far == getAECSpeakerFrame(cfg, speakerPcm, prevSpeakerPcm)
        ns(o) == Call("ns", micPcm, << >>, o)
        echo(o) == Call("echo", micPcm, far, o)
    IN  CASE cfg.Mode = ModeBypass -> { Done(impl, cfg, micPcm, << >>) }
          [] cfg.Mode = ModeTestAlaw -> { Done(impl, cfg, micPcm, << >>) }
          [] cfg.Mode = ModeNSOnly ->
                { IF r.ok THEN Done(impl, cfg, r.frame, << ns(r.frame) >>)
                  ELSE Failed("NS processing failed", << ns(r.frame) >>)
                  : r \in NSProcessFrame(nsE, micPcm) }
          [] cfg.Mode = ModeAECOnly ->
                { IF r.ok THEN Done(impl, cfg, r.frame, << echo(r.frame) >>)
                  ELSE Failed("AEC processing failed", << echo(r.frame) >>)
                  : r \in AECProcessFrameEchoOnly(aecE, micPcm, far) }
          [] cfg.Mode = ModeNSFirst ->
                UNION { IF ~a.ok THEN { Failed("AEC processing failed", << echo(a.frame) >>) }
                        ELSE { IF r.ok
                               THEN Done(impl, cfg, r.frame,
                                         << echo(a.frame),
                                            Call("ns", a.frame, << >>, r.frame) >>)
                               ELSE Failed("NS processing failed",
                                           << echo(a.frame),
                                            Call("ns", a.frame, << >>, r.frame) >>)
                               : r \in NSProcessFrame(nsE, a.frame) }
                        : a \in AECProcessFrameEchoOnly(aecE, micPcm, far) }
          [] cfg.Mode = ModeAECFirst ->
                { IF r.ok
                  THEN Done(impl, cfg, r.frame,
                            << Call("both", micPcm, far, r.frame) >>)
                  ELSE Failed("AEC processing failed",
                              << Call("both", micPcm, far, r.frame) >>)
                  : r \in AECProcessFrame(aecE, micPcm, far) }
          [] OTHER -> { Failed("unknown processing mode", << >>) }

\* a variant whose NSFirst branch hands the raw near-end frame to the echo
\* canceller instead of the noise suppressor's output
processFrame_EchoOnRawNear(cfg, impl, micPcm, speakerPcm, prevSpeakerPcm, aecE, nsE) ==
    LET far == getAECSpeakerFrame(cfg, speakerPcm, prevSpeakerPcm)
        ns(o) == Call("ns", micPcm, << >>, o)
    IN  CASE cfg.Mode = ModeBypass -> { Done(impl, cfg, micPcm, << >>) }
          [] cfg.Mode = ModeTestAlaw -> { Done(impl, cfg, micPcm, << >>) }
          [] cfg.Mode = ModeNSOnly ->
                { IF r.ok THEN Done(impl, cfg, r.frame, << ns(r.frame) >>)
                  ELSE Failed("NS processing failed", << ns(r.frame) >>)
                  : r \in NSProcessFrame(nsE, micPcm) }
          [] cfg.Mode = ModeAECOnly ->
                { IF r.ok
                  THEN Done(impl, cfg, r.frame,
                            << Call("echo", micPcm, far, r.frame) >>)
                  ELSE Failed("AEC processing failed",
                              << Call("echo", micPcm, far, r.frame) >>)
                  : r \in AECProcessFrameEchoOnly(aecE, micPcm, far) }
          [] cfg.Mode = ModeNSFirst ->
                UNION { IF ~n.ok THEN { Failed("NS processing failed", << ns(n.frame) >>) }
                        ELSE { IF r.ok
                               THEN Done(impl, cfg, r.frame,
                                         << ns(n.frame),
                                            Call("echo", micPcm, far, r.frame) >>)
                               ELSE Failed("AEC processing failed",
                                           << ns(n.frame),
                                            Call("echo", micPcm, far, r.frame) >>)
                               : r \in AECProcessFrameEchoOnly(aecE, micPcm, far) }
                        : n \in NSProcessFrame(nsE, micPcm) }
          [] cfg.Mode = ModeAECFirst ->
                { IF r.ok
                  THEN Done(impl, cfg, r.frame,
                            << Call("both", micPcm, far, r.frame) >>)
                  ELSE Failed("AEC processing failed",
                              << Call("both", micPcm, far, r.frame) >>)
                  : r \in AECProcessFrame(aecE, micPcm, far) }
          [] OTHER -> { Failed("unknown processing mode", << >>) }

\* Processor.processFrame: the possible results for one frame
processFrame(cfg, impl, micPcm, speakerPcm, prevSpeakerPcm, aecE, nsE) ==
    LET far == getAECSpeakerFrame(cfg, speakerPcm, prevSpeakerPcm)
        ns(o) == Call("ns", micPcm, << >>, o)
    IN  CASE cfg.Mode = ModeBypass -> { Done(impl, cfg, micPcm, << >>) }
          [] cfg.Mode = ModeTestAlaw -> { Done(impl, cfg, micPcm, << >>) }
          [] cfg.Mode = ModeNSOnly ->
                { IF r.ok THEN Done(impl, cfg, r.frame, << ns(r.frame) >>)
                  ELSE Failed("NS processing failed", << ns(r.frame) >>)
                  : r \in NSProcessFrame(nsE, micPcm) }
          [] cfg.Mode = ModeAECOnly ->
                { IF r.ok
                  THEN Done(impl, cfg, r.frame,
                            << Call("echo", micPcm, far, r.frame) >>)
                  ELSE Failed("AEC processing failed",
                              << Call("echo", micPcm, far, r.frame) >>)
                  : r \in AECProcessFrameEchoOnly(aecE, micPcm, far) }
          [] cfg.Mode = ModeNSFirst ->
                UNION { IF ~n.ok THEN { Failed("NS processing failed", << ns(n.frame) >>) }
                        ELSE { IF r.ok
                               THEN Done(impl, cfg, r.frame,
                                         << ns(n.frame),
                                            Call("echo", n.frame, far, r.frame) >>)
                               ELSE Failed("AEC processing failed",
                                           << ns(n.frame),
                                            Call("echo", n.frame, far, r.frame) >>)
                               : r \in AECProcessFrameEchoOnly(aecE, n.frame, far) }
                        : n \in NSProcessFrame(nsE, micPcm) }
          [] cfg.Mode = ModeAECFirst ->
                { IF r.ok
                  THEN Done(impl, cfg, r.frame,
                            << Call("both", micPcm, far, r.frame) >>)
                  ELSE Failed("AEC processing failed",
                              << Call("both", micPcm, far, r.frame) >>)
                  : r \in AECProcessFrame(aecE, micPcm, far) }
          [] OTHER -> { Failed("unknown processing mode", << >>) }

\* processAEC, the mode branches of one iteration (main.go): bypass copies the
\* compressed near-end frame, the other modes encode the engines' output
processAECFrame(cfg, impl, micAlaw, micPcm, speakerPcm, prevSpeakerPcm, aecE, nsE) ==
    LET far == IF cfg.UsePrevSpeaker THEN prevSpeakerPcm ELSE speakerPcm
        ns(o) == Call("ns", micPcm, << >>, o)
    IN  CASE cfg.Mode = ModeBypass ->
                { [ ok |-> TRUE, msg |-> "", calls |-> << >>, encodes |-> 0,
                    out |-> [i \in 1 .. cfg.FrameSize |-> micAlaw[i]] ] }
          [] cfg.Mode = ModeNSOnly ->
                { IF r.ok THEN Done(impl, cfg, r.frame, << ns(r.frame) >>)
                  ELSE Failed("NS processing failed", << ns(r.frame) >>)
                  : r \in NSProcessFrame(nsE, micPcm) }
          [] cfg.Mode = ModeAECOnly ->
                { IF r.ok
                  THEN Done(impl, cfg, r.frame,
                            << Call("echo", micPcm, far, r.frame) >>)
                  ELSE Failed("AEC processing failed",
                              << Call("echo", micPcm, far, r.frame) >>)
                  : r \in AECProcessFrameEchoOnly(aecE, micPcm, far) }
          [] cfg.Mode = ModeNSFirst ->
                UNION { IF ~n.ok THEN { Failed("NS processing failed", << ns(n.frame) >>) }
                        ELSE { IF r.ok
                               THEN Done(impl, cfg, r.frame,
                                         << ns(n.frame),
                                            Call("echo", n.frame, far, r.frame) >>)
                               ELSE Failed("AEC processing failed",
                                           << ns(n.frame),
                                            Call("echo", n.frame, far, r.frame) >>)
                               : r \in AECProcessFrameEchoOnly(aecE, n.frame, far) }
                        : n \in NSProcessFrame(nsE, micPcm) }
          [] OTHER ->
                { IF r.ok
                  THEN Done(impl, cfg, r.frame,
                            << Call("both", micPcm, far, r.frame) >>)
                  ELSE Failed("AEC processing failed",
                              << Call("both", micPcm, far, r.frame) >>)
                  : r \in AECProcessFrame(aecE, micPcm, far) }

\* a variant without the default case: a mode outside the six needs nothing
initializeComponents_UnknownModeAccepted(cfg) ==
    LET made(a, n) == [ aec |-> a, ns |-> n, msg |-> "" ]
        bad(a, m) == [ aec |-> a, ns |-> NoEngine, msg |-> m ]
        newAEC == NewAEC(cfg.FrameSize, cfg.FilterLen, cfg.SampleRate)
        newNS == NewPreprocessorWithConfig(cfg.FrameSize, cfg.SampleRate)
    IN  CASE cfg.Mode \in { ModeBypass, ModeTestAlaw } -> { made(NoEngine, NoEngine) }
          [] cfg.Mode = ModeNSOnly ->
                { IF n.state = "nil" THEN bad(NoEngine, "failed to initialize NS")
                  ELSE made(NoEngine, n) : n \in newNS }
          [] cfg.Mode \in { ModeAECOnly, ModeAECFirst } ->
                { IF a.state = "nil" THEN bad(NoEngine, "failed to initialize AEC")
                  ELSE made(a, NoEngine) : a \in newAEC }
          [] cfg.Mode = ModeNSFirst ->
                UNION { IF a.state = "nil"
                        THEN { bad(NoEngine, "failed to initialize AEC") }
                        ELSE { IF n.state = "nil"
                               THEN bad(a, "failed to initialize separate NS")
                               ELSE made(a, n) : n \in newNS }
                        : a \in newAEC }
          [] OTHER -> { made(NoEngine, NoEngine) }

\* Processor.initializeComponents: the engines each mode creates, or the error
initializeComponents(cfg) ==
    LET made(a, n) == [ aec |-> a, ns |-> n, msg |-> "" ]
        bad(a, m) == [ aec |-> a, ns |-> NoEngine, msg |-> m ]
        newAEC == NewAEC(cfg.FrameSize, cfg.FilterLen, cfg.SampleRate)
        newNS == NewPreprocessorWithConfig(cfg.FrameSize, cfg.SampleRate)
    IN  CASE cfg.Mode \in { ModeBypass, ModeTestAlaw } -> { made(NoEngine, NoEngine) }
          [] cfg.Mode = ModeNSOnly ->
                { IF n.state = "nil" THEN bad(NoEngine, "failed to initialize NS")
                  ELSE made(NoEngine, n) : n \in newNS }
          [] cfg.Mode \in { ModeAECOnly, ModeAECFirst } ->
                { IF a.state = "nil" THEN bad(NoEngine, "failed to initialize AEC")
                  ELSE made(a, NoEngine) : a \in newAEC }
          [] cfg.Mode = ModeNSFirst ->
                UNION { IF a.state = "nil"
                        THEN { bad(NoEngine, "failed to initialize AEC") }
                        ELSE { IF n.state = "nil"
                               THEN bad(a, "failed to initialize separate NS")
                               ELSE made(a, n) : n \in newNS }
                        : a \in newAEC }
          [] OTHER -> { bad(NoEngine, "unknown processing mode") }

\* processAEC, component set-up (main.go): bypass none, nsOnly the suppressor,
\* otherwise the echo canceller and, for nsFirst, the suppressor too
initializeAEC(cfg) ==
    LET made(a, n) == [ aec |-> a, ns |-> n, msg |-> "" ]
        bad(a, m) == [ aec |-> a, ns |-> NoEngine, msg |-> m ]
        newAEC == NewAEC(cfg.FrameSize, cfg.FilterLen, cfg.SampleRate)
        newNS == NewPreprocessorWithConfig(cfg.FrameSize, cfg.SampleRate)
    IN  CASE cfg.Mode = ModeBypass -> { made(NoEngine, NoEngine) }
          [] cfg.Mode = ModeNSOnly ->
                { IF n.state = "nil" THEN bad(NoEngine, "failed to initialize NS")
                  ELSE made(NoEngine, n) : n \in newNS }
          [] OTHER ->
                UNION { IF a.state = "nil"
                        THEN { bad(NoEngine, "failed to initialize AEC") }
                        ELSE IF cfg.Mode # ModeNSFirst THEN { made(a, NoEngine) }
                        ELSE { IF n.state = "nil"
                               THEN bad(a, "failed to initialize separate NS")
                               ELSE made(a, n) : n \in newNS }
                        : a \in newAEC }

(***************************************************************************)
(* The command line                                                        *)
(***************************************************************************)

defaultFrameSize == 320

\* types.DefaultConfig
DefaultConfig ==
    [ MicFile |-> "", SpeakerFile |-> "", OutputFile |-> "output.alaw",
      Mode |-> ModeAECFirst, SampleRate |-> defaultSampleRate,
      FrameSize |-> defaultFrameSize, EchoTailMs |-> defaultEchoTailMs,
      FilterLen |-> 0, ProgressSec |-> defaultProgressSec,
      UsePrevSpeaker |-> FALSE ]

\* the flags with their default values: an empty command line
NoFlags ==
    [ mic |-> "", speaker |-> "", output |-> DefaultConfig.OutputFile,
      prevSpeaker |-> DefaultConfig.UsePrevSpeaker,
      nsFirst |-> FALSE, nsOnly |-> FALSE, aecOnly |-> FALSE, bypass |-> FALSE,
      testAlaw |-> FALSE, sampleRate |-> DefaultConfig.SampleRate,
      frameSize |-> DefaultConfig.FrameSize, echoTail |-> DefaultConfig.EchoTailMs,
      filterLen |-> 0, progressSec |-> DefaultConfig.ProgressSec, help |-> FALSE ]

\* the nil *types.Config returned with an error
NilConfig == [ nil |-> TRUE ]

\* Go's integer division, which truncates toward zero
TruncDiv(a, b) ==
    IF (a >= 0) = (b > 0) THEN Abs(a) \div Abs(b) ELSE -(Abs(a) \div Abs(b))

\* a variant that does not ask for the far-end path in the AEC-only mode
validateConfig_AECOnlyNoSpeaker(cfg, help) ==
    LET speakerRequired == /\ cfg.Mode # ModeNSOnly
                           /\ cfg.Mode # ModeBypass
                           /\ cfg.Mode # ModeTestAlaw
                           /\ cfg.Mode # ModeAECOnly
    IN  IF help \/ cfg.MicFile = "" \/ (speakerRequired /\ cfg.SpeakerFile = "")
        THEN "missing required parameters"
        ELSE ""

\* validateConfig: the error message, or "" for nil
validateConfig(cfg, help) ==
    LET speakerRequired == /\ cfg.Mode # ModeNSOnly
                           /\ cfg.Mode # ModeBypass
                           /\ cfg.Mode # ModeTestAlaw
    IN  IF help \/ cfg.MicFile = "" \/ (speakerRequired /\ cfg.SpeakerFile = "")
        THEN "missing required parameters"
        ELSE ""

\* the number of mode flags that are set
exclusiveCount(fl) ==
    (IF fl.nsFirst THEN 1 ELSE 0) + (IF fl.nsOnly THEN 1 ELSE 0)
    + (IF fl.aecOnly THEN 1 ELSE 0) + (IF fl.bypass THEN 1 ELSE 0)
    + (IF fl.testAlaw THEN 1 ELSE 0)

\* the mode after the five ifs, each of which overwrites the one before
modeOfFlags(fl) ==
    IF fl.testAlaw THEN ModeTestAlaw
    ELSE IF fl.bypass THEN ModeBypass
    ELSE IF fl.aecOnly THEN ModeAECOnly
    ELSE IF fl.nsOnly THEN ModeNSOnly
    ELSE IF fl.nsFirst THEN ModeNSFirst
    ELSE DefaultConfig.Mode

\* a variant that lets the last mode flag win instead of rejecting several
ParseFlags_LastFlagWins(fl) ==
    LET cfg == [ DefaultConfig EXCEPT
                   !.MicFile = fl.mic, !.SpeakerFile = fl.speaker,
                   !.OutputFile = fl.output, !.Mode = modeOfFlags(fl),
                   !.SampleRate = fl.sampleRate, !.FrameSize = fl.frameSize,
                   !.EchoTailMs = fl.echoTail, !.ProgressSec = fl.progressSec,
                   !.UsePrevSpeaker = fl.prevSpeaker,
                   !.FilterLen = IF fl.filterLen <= 0
                                 THEN TruncDiv(fl.sampleRate * fl.echoTail, 1000)
                                 ELSE fl.filterLen ]
        invalid == validateConfig(cfg, fl.help)
    IN  IF invalid # ""
        THEN [ cfg |-> NilConfig, err |-> invalid ]
        ELSE [ cfg |-> cfg, err |-> "" ]

\* a variant that derives the filter length only for a negative -filter-len
ParseFlags_ZeroFilterLenKept(fl) ==
    LET cfg == [ DefaultConfig EXCEPT
                   !.MicFile = fl.mic, !.SpeakerFile = fl.speaker,
                   !.OutputFile = fl.output, !.Mode = modeOfFlags(fl),
                   !.SampleRate = fl.sampleRate, !.FrameSize = fl.frameSize,
                   !.EchoTailMs = fl.echoTail, !.ProgressSec = fl.progressSec,
                   !.UsePrevSpeaker = fl.prevSpeaker,
                   !.FilterLen = IF fl.filterLen < 0
                                 THEN TruncDiv(fl.sampleRate * fl.echoTail, 1000)
                                 ELSE fl.filterLen ]
        invalid == validateConfig(cfg, fl.help)
    IN  IF exclusiveCount(fl) > 1
        THEN [ cfg |-> NilConfig,
               err |-> "-ns-first, -ns-only, -aec-only, -bypass, and -test-alaw are mutually exclusive" ]
        ELSE IF invalid # ""
        THEN [ cfg |-> NilConfig, err |-> invalid ]
        ELSE [ cfg |-> cfg, err |-> "" ]

\* ParseFlags: the configuration and the error it returns for the flags
ParseFlags(fl) ==
    LET cfg == [ DefaultConfig EXCEPT
                   !.MicFile = fl.mic, !.SpeakerFile = fl.speaker,
                   !.OutputFile = fl.output, !.Mode = modeOfFlags(fl),
                   !.SampleRate = fl.sampleRate, !.FrameSize = fl.frameSize,
                   !.EchoTailMs = fl.echoTail, !.ProgressSec = fl.progressSec,
                   !.UsePrevSpeaker = fl.prevSpeaker,
                   !.FilterLen = IF fl.filterLen <= 0
                                 THEN TruncDiv(fl.sampleRate * fl.echoTail, 1000)
                                 ELSE fl.filterLen ]
        invalid == validateConfig(cfg, fl.help)
    IN  IF exclusiveCount(fl) > 1
        THEN [ cfg |-> NilConfig,
               err |-> "-ns-first, -ns-only, -aec-only, -bypass, and -test-alaw are mutually exclusive" ]
        ELSE IF invalid # ""
        THEN [ cfg |-> NilConfig, err |-> invalid ]
        ELSE [ cfg |-> cfg, err |-> "" ]

(***************************************************************************)
(* State                                                                   *)
(***************************************************************************)

VARIABLES
    flags,                \* the command line: the value of every flag
    cimpl,                \* the codec implementation in use
    chain,                \* codec harness: the values converted so far
    entry,                \* the entry point that is running
    config,               \* types.Config: Mode, FrameSize, UsePrevSpeaker, ...
    micFile,              \* near-end stream: its bytes and the read position
    speakerFile,          \* far-end stream: bytes, read position, whether opened
    outFile,              \* the bytes written to the output so far
    aec,                  \* the echo canceller instance
    separateNS,           \* the standalone noise suppressor instance
    micAlawFrame,         \* reused near-end A-law buffer
    speakerAlawFrame,     \* reused far-end A-law buffer
    micPcmFrame,          \* reused near-end PCM buffer
    speakerPcmFrame,      \* reused far-end PCM buffer
    prevSpeakerPcmFrame,  \* retained far-end frame (empty when not allocated)
    micBytesRead,         \* result of the last near-end read
    speakerBytesRead,     \* result of the last far-end read
    outputAlawFrame,      \* the frame processFrame returned, not yet written
    frameCount,           \* frames written
    pc,                   \* where the run stands
    err,                  \* the error the run returned: message and frame index
    calls,                \* the engine calls of the current iteration
    obs                   \* observations: counts of reads, writes, codec calls

vars == << flags, cimpl, chain, entry, config, micFile, speakerFile, outFile, aec,
           separateNS, micAlawFrame, speakerAlawFrame, micPcmFrame,
           speakerPcmFrame, prevSpeakerPcmFrame, micBytesRead, speakerBytesRead,
           outputAlawFrame, frameCount, pc, err, calls, obs >>

pipelineVars == << flags, entry, config, micFile, speakerFile, outFile, aec,
                   separateNS, micAlawFrame, speakerAlawFrame, micPcmFrame,
                   speakerPcmFrame, prevSpeakerPcmFrame, micBytesRead,
                   speakerBytesRead, outputAlawFrame, frameCount, pc, err,
                   calls, obs >>

buffers == << micAlawFrame, speakerAlawFrame, micPcmFrame, speakerPcmFrame,
              prevSpeakerPcmFrame, outputAlawFrame >>

engines == << aec, separateNS >>

NoErr == [ msg |-> "", frame |-> -1 ]
Error(m) == [ msg |-> m, frame |-> -1 ]

\* a variant that reports the index of the frame after the failed one
FrameError_NextIndex(m, k) == [ msg |-> m, frame |-> k + 1 ]

\* processAudio: fmt.Errorf("error processing frame %d: %w", frameCount, err);
\* processAEC: fmt.Errorf("... processing failed at frame %d", frameCount)
FrameError(m, k) == [ msg |-> m, frame |-> k ]

NoObs ==
    [ micReads |-> 0, spkReads |-> 0, writes |-> 0, decodes |-> 0, encodes |-> 0,
      engineCalls |-> 0, lastMic |-> << >>, lastSpk |-> << >>, spkFrames |-> << >>,
      progress |-> << >> ]

(***************************************************************************)
(* Bounds and inputs                                                       *)
(***************************************************************************)

\* the largest frame size tried
MaxFrame == 2

\* the longest stream tried, in bytes
MaxStream == 4

\* first bytes of the streams tried in every mode
ByteBases == { 1, 213 }

\* a stream of n bytes that differ from each other: base, base+37, ...
Stream(base, n) == [i \in 1 .. n |-> (base + 37 * (i - 1)) % 256]

\* the far-end stream that goes with a near-end stream
FarBase(base) == (base + 128) % 256

IdleCodec ==
    /\ chain = << >>

IdlePipeline ==
    /\ flags = NoFlags
    /\ entry = "none"
    /\ config = [ Mode |-> ModeBypass, FrameSize |-> 0, UsePrevSpeaker |-> FALSE,
                  SampleRate |-> 0, FilterLen |-> 0,
                  ProgressSec |-> Seconds(0, 1) ]
    /\ micFile = [ data |-> << >>, pos |-> 0 ]
    /\ speakerFile = [ data |-> << >>, pos |-> 0, opened |-> FALSE ]
    /\ outFile = << >>
    /\ aec = NoEngine
    /\ separateNS = NoEngine
    /\ micAlawFrame = << >>
    /\ speakerAlawFrame = << >>
    /\ micPcmFrame = << >>
    /\ speakerPcmFrame = << >>
    /\ prevSpeakerPcmFrame = << >>
    /\ micBytesRead = 0
    /\ speakerBytesRead = 0
    /\ outputAlawFrame = << >>
    /\ frameCount = 0
    /\ pc = "idle"
    /\ err = NoErr
    /\ calls = << >>
    /\ obs = NoObs

\* a run about to start: the streams exist, nothing is open or allocated
Start(e, impl, mode, fs, prev, base, n, m) ==
    /\ cimpl = impl
    /\ IdleCodec
    /\ flags = NoFlags
    /\ entry = e
    /\ config = [ Mode |-> mode, FrameSize |-> fs, UsePrevSpeaker |-> prev,
                  SampleRate |-> defaultSampleRate, FilterLen |-> defaultFilterLen,
                  ProgressSec |-> defaultProgressSec ]
    /\ micFile = [ data |-> Stream(base, n), pos |-> 0 ]
    /\ speakerFile = [ data |-> Stream(FarBase(base), m), pos |-> 0, opened |-> FALSE ]
    /\ outFile = << >>
    /\ aec = NoEngine
    /\ separateNS = NoEngine
    /\ micAlawFrame = << >>
    /\ speakerAlawFrame = << >>
    /\ micPcmFrame = << >>
    /\ speakerPcmFrame = << >>
    /\ prevSpeakerPcmFrame = << >>
    /\ micBytesRead = 0
    /\ speakerBytesRead = 0
    /\ outputAlawFrame = << >>
    /\ frameCount = 0
    /\ pc = "open"
    /\ err = NoErr
    /\ calls = << >>
    /\ obs = NoObs

\* the codec an entry point is linked with: package audio has the direct
\* computation; package main has had both files
CodecsOf(e) == IF e = "processAEC" THEN CodecImpls ELSE { "direct" }

\* the runs of Process and processAEC that are tried: every mode, frame size,
\* delay setting and stream length with the bases above, and every first byte
\* for the modes that involve no engine
Init ==
    \E e \in { "Process", "processAEC" } :
    \E impl \in CodecsOf(e), mode \in ModesOf(e), fs \in 1 .. MaxFrame :
    \E prev \in BOOLEAN, n \in 0 .. MaxStream, m \in 0 .. MaxStream :
    \E base \in IF mode \in { ModeBypass, ModeTestAlaw } /\ ~prev /\ m = 0
                THEN Uint8 ELSE ByteBases :
        Start(e, impl, mode, fs, prev, base, n, m)

(***************************************************************************)
(* Stream I/O                                                              *)
(***************************************************************************)

Min(a, b) == IF a < b THEN a ELSE b

\* the first n bytes of buf replaced by the next n bytes of the stream
ReadInto(file, buf, n) ==
    [i \in 1 .. Len(buf) |-> IF i <= n THEN file.data[file.pos + i] ELSE buf[i]]

\* a variant that reports a short read as the end of the stream
ReadFull_ShortIsEOF(file, buf) ==
    LET avail == Len(file.data) - file.pos
        n == Min(avail, Len(buf))
        got(k, st) == [ n |-> k, status |-> st, buf |-> ReadInto(file, buf, k),
                        bytes |-> SubSeq(file.data, file.pos + 1, file.pos + k),
                        file |-> [ file EXCEPT !.pos = file.pos + k ] ]
    IN  { got(n, IF n = Len(buf) THEN "ok" ELSE "EOF") }
        \cup { got(k, "error") : k \in 0 .. Min(avail, Len(buf) - 1) }

\* a variant that reports the end of the stream as a short read of no bytes
ReadFull_NeverEOF(file, buf) ==
    LET avail == Len(file.data) - file.pos
        n == Min(avail, Len(buf))
        got(k, st) == [ n |-> k, status |-> st, buf |-> ReadInto(file, buf, k),
                        bytes |-> SubSeq(file.data, file.pos + 1, file.pos + k),
                        file |-> [ file EXCEPT !.pos = file.pos + k ] ]
    IN  { got(n, IF n = Len(buf) THEN "ok" ELSE "ErrUnexpectedEOF") }
        \cup { got(k, "error") : k \in 0 .. Min(avail, Len(buf) - 1) }

\* io.ReadFull(file, buf): a full buffer, io.EOF when nothing is left,
\* io.ErrUnexpectedEOF on a short read, or an I/O error after k < len bytes
ReadFull(file, buf) ==
    LET avail == Len(file.data) - file.pos
        n == Min(avail, Len(buf))
        got(k, st) == [ n |-> k, status |-> st, buf |-> ReadInto(file, buf, k),
                        bytes |-> SubSeq(file.data, file.pos + 1, file.pos + k),
                        file |-> [ file EXCEPT !.pos = file.pos + k ] ]
    IN  { got(n, IF n = Len(buf) THEN "ok"
                 ELSE IF n = 0 THEN "EOF" ELSE "ErrUnexpectedEOF") }
        \cup { got(k, "error") : k \in 0 .. Min(avail, Len(buf) - 1) }

\* outFile.Write(frame): all of it, or an error after k < len bytes
WriteFrame(out, frame) ==
    { [ ok |-> TRUE, out |-> out \o frame ] }
    \cup { [ ok |-> FALSE, out |-> out \o SubSeq(frame, 1, k) ]
           : k \in 0 .. Len(frame) - 1 }

\* copy(prevSpeakerPcmFrame, speakerPcmFrame) when the entry point updates it
updatePrev(e, cfg, prev, spk) ==
    IF cfg.UsePrevSpeaker
       /\ (IF e = "processAEC" THEN cfg.Mode # ModeBypass ELSE needsSpeakerFile(cfg))
    THEN [i \in 1 .. Len(prev) |-> IF i <= Len(spk) THEN spk[i] ELSE prev[i]]
    ELSE prev

(***************************************************************************)
(* The run                                                                 *)
(***************************************************************************)

\* the function returns e: Process and processAEC run their deferred calls
Return(e) ==
    /\ err' = e
    /\ pc' = IF entry = "processAudio" THEN "done" ELSE "cleanup"

\* os.Open of the inputs, os.Create of the output; any of them may fail
OpenFiles ==
    /\ pc = "open"
    /\ \E failed \in { "", "mic", "speaker", "output" } :
          /\ failed = "speaker" => NeedsSpeaker(entry, config)
          /\ speakerFile' = [ speakerFile EXCEPT !.opened =
                                 NeedsSpeaker(entry, config) /\ failed # "mic" ]
          /\ IF failed = ""
             THEN /\ pc' = "init"
                  /\ err' = err
             ELSE Return(Error(CASE failed = "mic" -> "failed to open mic file"
                                 [] failed = "speaker" -> "failed to open speaker file"
                                 [] OTHER -> "failed to create output file"))
    /\ UNCHANGED << flags, cimpl, chain, entry, config, micFile, outFile, engines,
                    buffers, micBytesRead, speakerBytesRead, frameCount, calls, obs >>

\* Process: initializeComponents, then the deferred Destroy calls are set up;
\* an error returns before any is.  processAEC defers each Destroy as soon as
\* the instance exists, so an error still runs them.
InitializeComponents ==
    /\ pc = "init"
    /\ \E r \in IF entry = "processAEC" THEN initializeAEC(config)
                ELSE initializeComponents(config) :
          /\ aec' = r.aec
          /\ separateNS' = r.ns
          /\ IF r.msg = ""
             THEN /\ pc' = "alloc"
                  /\ err' = err
             ELSE /\ err' = Error(r.msg)
                  /\ pc' = IF entry = "processAEC" THEN "cleanup" ELSE "done"
    /\ UNCHANGED << flags, cimpl, chain, entry, config, micFile, speakerFile, outFile,
                    buffers, micBytesRead, speakerBytesRead, frameCount, calls, obs >>

\* a variant that leaves the retained far-end frame unallocated
AllocateBuffers_PrevUnsized ==
    /\ pc = "alloc"
    /\ micAlawFrame' = Zeroed(config.FrameSize)
    /\ speakerAlawFrame' = Zeroed(config.FrameSize)
    /\ micPcmFrame' = Zeroed(config.FrameSize)
    /\ speakerPcmFrame' = Zeroed(config.FrameSize)
    /\ prevSpeakerPcmFrame' = << >>
    /\ frameCount' = 0
    /\ pc' = "read_mic"
    /\ UNCHANGED << flags, cimpl, chain, entry, config, micFile, speakerFile, outFile,
                    engines, outputAlawFrame, micBytesRead, speakerBytesRead,
                    err, calls, obs >>

\* the buffers of the frame loop are made once, zeroed
AllocateBuffers ==
    /\ pc = "alloc"
    /\ micAlawFrame' = Zeroed(config.FrameSize)
    /\ speakerAlawFrame' = Zeroed(config.FrameSize)
    /\ micPcmFrame' = Zeroed(config.FrameSize)
    /\ speakerPcmFrame' = Zeroed(config.FrameSize)
    /\ prevSpeakerPcmFrame' =
          IF config.UsePrevSpeaker THEN Zeroed(config.FrameSize) ELSE << >>
    /\ frameCount' = 0
    /\ pc' = "read_mic"
    /\ UNCHANGED << flags, cimpl, chain, entry, config, micFile, speakerFile, outFile,
                    engines, outputAlawFrame, micBytesRead, speakerBytesRead,
                    err, calls, obs >>

\* the near-end read that starts an iteration
ReadMic ==
    /\ pc = "read_mic"
    /\ \E r \in ReadFull(micFile, micAlawFrame) :
          /\ micFile' = r.file
          /\ micAlawFrame' = r.buf
          /\ micBytesRead' = r.n
          /\ obs' = [ obs EXCEPT !.micReads = @ + 1, !.lastMic = r.bytes ]
          /\ CASE r.status = "EOF" -> Return(NoErr)
               [] r.status = "error" -> Return(Error("error reading mic file"))
               [] OTHER ->
                    /\ err' = err
                    /\ pc' = IF NeedsSpeaker(entry, config)
                             THEN "read_speaker" ELSE "convert"
    /\ speakerBytesRead' = 0
    /\ calls' = << >>
    /\ UNCHANGED << flags, cimpl, chain, entry, config, speakerFile, outFile, engines,
                    speakerAlawFrame, micPcmFrame, speakerPcmFrame,
                    prevSpeakerPcmFrame, outputAlawFrame, frameCount >>

\* a variant that carries on with a padded frame when the far-end stream ends
ReadSpeaker_ContinueOnEOF ==
    /\ pc = "read_speaker"
    /\ \E r \in ReadFull(speakerFile, speakerAlawFrame) :
          /\ speakerFile' = r.file
          /\ speakerAlawFrame' = r.buf
          /\ speakerBytesRead' = r.n
          /\ obs' = [ obs EXCEPT !.spkReads = @ + 1, !.lastSpk = r.bytes ]
          /\ CASE r.status = "error" -> Return(Error("error reading speaker file"))
               [] OTHER ->
                    /\ err' = err
                    /\ pc' = "convert"
    /\ UNCHANGED << flags, cimpl, chain, entry, config, micFile, outFile, engines,
                    micAlawFrame, micPcmFrame, speakerPcmFrame,
                    prevSpeakerPcmFrame, outputAlawFrame, micBytesRead,
                    frameCount, calls >>

\* the far-end read, in the modes that need the far-end stream
ReadSpeaker ==
    /\ pc = "read_speaker"
    /\ \E r \in ReadFull(speakerFile, speakerAlawFrame) :
          /\ speakerFile' = r.file
          /\ speakerAlawFrame' = r.buf
          /\ speakerBytesRead' = r.n
          /\ obs' = [ obs EXCEPT !.spkReads = @ + 1, !.lastSpk = r.bytes ]
          /\ CASE r.status = "EOF" -> Return(NoErr)
               [] r.status = "error" -> Return(Error("error reading speaker file"))
               [] OTHER ->
                    /\ err' = err
                    /\ pc' = "convert"
    /\ UNCHANGED << flags, cimpl, chain, entry, config, micFile, outFile, engines,
                    micAlawFrame, micPcmFrame, speakerPcmFrame,
                    prevSpeakerPcmFrame, outputAlawFrame, micBytesRead,
                    frameCount, calls >>

\* a variant that updates the retained far-end frame right after decoding,
\* before the stages have used the previous one
Convert_UpdatesPrevEarly ==
    /\ pc = "convert"
    /\ LET padded == zeroPadFrames(entry, config, micAlawFrame, micBytesRead,
                                   speakerAlawFrame, speakerBytesRead)
           far == NeedsSpeaker(entry, config)
           spk == AlawBufferToPCM16(cimpl, padded.spk, speakerPcmFrame)
       IN  /\ micAlawFrame' = padded.mic
           /\ speakerAlawFrame' = padded.spk
           /\ micPcmFrame' = AlawBufferToPCM16(cimpl, padded.mic, micPcmFrame)
           /\ speakerPcmFrame' = IF far THEN spk ELSE speakerPcmFrame
           /\ prevSpeakerPcmFrame' =
                 updatePrev(entry, config, prevSpeakerPcmFrame,
                            IF far THEN spk ELSE speakerPcmFrame)
           /\ obs' = [ obs EXCEPT !.decodes = @ + (IF far THEN 2 ELSE 1),
                                  !.spkFrames = IF far THEN Append(@, spk) ELSE @ ]
    /\ pc' = "process"
    /\ UNCHANGED << flags, cimpl, chain, entry, config, micFile, speakerFile, outFile,
                    engines, outputAlawFrame, micBytesRead,
                    speakerBytesRead, frameCount, err, calls >>

\* zeroPadFrames, then AlawBufferToPCM16 of the near-end frame and, when the
\* far-end stream is in use, of the far-end frame
Convert ==
    /\ pc = "convert"
    /\ LET padded == zeroPadFrames(entry, config, micAlawFrame, micBytesRead,
                                   speakerAlawFrame, speakerBytesRead)
           far == NeedsSpeaker(entry, config)
           spk == AlawBufferToPCM16(cimpl, padded.spk, speakerPcmFrame)
       IN  /\ micAlawFrame' = padded.mic
           /\ speakerAlawFrame' = padded.spk
           /\ micPcmFrame' = AlawBufferToPCM16(cimpl, padded.mic, micPcmFrame)
           /\ speakerPcmFrame' = IF far THEN spk ELSE speakerPcmFrame
           /\ obs' = [ obs EXCEPT !.decodes = @ + (IF far THEN 2 ELSE 1),
                                  !.spkFrames = IF far THEN Append(@, spk) ELSE @ ]
    /\ pc' = "process"
    /\ UNCHANGED << flags, cimpl, chain, entry, config, micFile, speakerFile, outFile,
                    engines, prevSpeakerPcmFrame, outputAlawFrame, micBytesRead,
                    speakerBytesRead, frameCount, err, calls >>

\* processFrame and, when it succeeds, the update of the retained far-end frame
ProcessOneFrame ==
    /\ pc = "process"
    /\ \E r \in IF entry = "processAEC"
                THEN processAECFrame(config, cimpl, micAlawFrame, micPcmFrame,
                                     speakerPcmFrame, prevSpeakerPcmFrame,
                                     aec, separateNS)
                ELSE processFrame(config, cimpl, micPcmFrame, speakerPcmFrame,
                                  prevSpeakerPcmFrame, aec, separateNS) :
          /\ calls' = r.calls
          /\ obs' = [ obs EXCEPT !.engineCalls = @ + Len(r.calls),
                                 !.encodes = @ + r.encodes ]
          /\ IF r.ok
             THEN /\ outputAlawFrame' = r.out
                  /\ prevSpeakerPcmFrame' =
                        updatePrev(entry, config, prevSpeakerPcmFrame, speakerPcmFrame)
                  /\ pc' = "write"
                  /\ err' = err
             ELSE /\ Return(FrameError(r.msg, frameCount))
                  /\ UNCHANGED << outputAlawFrame, prevSpeakerPcmFrame >>
    /\ UNCHANGED << flags, cimpl, chain, entry, config, micFile, speakerFile, outFile,
                    engines, micAlawFrame, speakerAlawFrame, micPcmFrame,
                    speakerPcmFrame, micBytesRead, speakerBytesRead, frameCount >>

\* a variant that goes on with the next frame when the write fails
WriteOutput_IgnoreError ==
    /\ pc = "write"
    /\ \E w \in WriteFrame(outFile, outputAlawFrame) :
          /\ outFile' = w.out
          /\ frameCount' = frameCount + 1
          /\ obs' = [ obs EXCEPT !.writes = @ + 1,
                                 !.progress = @ \o logProgress(config, frameCount + 1) ]
          /\ pc' = "read_mic"
          /\ err' = err
    /\ UNCHANGED << flags, cimpl, chain, entry, config, micFile, speakerFile, engines,
                    buffers, micBytesRead, speakerBytesRead, calls >>

\* outFile.Write of the frame, then frameCount++
WriteOutput ==
    /\ pc = "write"
    /\ \E w \in WriteFrame(outFile, outputAlawFrame) :
          /\ outFile' = w.out
          /\ IF w.ok
             THEN /\ frameCount' = frameCount + 1
                  /\ obs' = [ obs EXCEPT !.writes = @ + 1,
                                         !.progress =
                                            @ \o logProgress(config, frameCount + 1) ]
                  /\ pc' = "read_mic"
                  /\ err' = err
             ELSE /\ Return(Error("error writing output"))
                  /\ UNCHANGED << frameCount, obs >>
    /\ UNCHANGED << flags, cimpl, chain, entry, config, micFile, speakerFile, engines,
                    buffers, micBytesRead, speakerBytesRead, calls >>

\* a variant that runs the echo canceller's Destroy twice
Cleanup_DestroysTwice ==
    /\ pc = "cleanup"
    /\ separateNS' = Destroy(separateNS)
    /\ aec' = Destroy(Destroy(aec))
    /\ pc' = "done"
    /\ UNCHANGED << flags, cimpl, chain, entry, config, micFile, speakerFile, outFile,
                    buffers, micBytesRead, speakerBytesRead, frameCount, err,
                    calls, obs >>

\* the deferred Destroy calls
Cleanup ==
    /\ pc = "cleanup"
    /\ separateNS' = Destroy(separateNS)
    /\ aec' = Destroy(aec)
    /\ pc' = "done"
    /\ UNCHANGED << flags, cimpl, chain, entry, config, micFile, speakerFile, outFile,
                    buffers, micBytesRead, speakerBytesRead, frameCount, err,
                    calls, obs >>

Next ==
    \/ OpenFiles
    \/ InitializeComponents
    \/ AllocateBuffers
    \/ ReadMic
    \/ ReadSpeaker
    \/ Convert
    \/ ProcessOneFrame
    \/ WriteOutput
    \/ Cleanup

Spec == Init /\ [][Next]_vars

(***************************************************************************)
(* The frame loop on its own: processAudio called with the caller's        *)
(* streams and engine instances, whose frame size is the caller's choice   *)
(***************************************************************************)

\* the engine instances a mode dereferences must exist
AudioEngines(mode) ==
    LET live == { LiveEngine(k) : k \in 1 .. MaxFrame }
    IN  [ aec : IF mode \in { ModeAECOnly, ModeNSFirst, ModeAECFirst }
                THEN live ELSE { NoEngine },
          ns : IF mode \in { ModeNSOnly, ModeNSFirst } THEN live ELSE { NoEngine } ]

InitAudio ==
    \E mode \in Modes, fs \in 1 .. MaxFrame, prev \in BOOLEAN :
    \E n \in 0 .. MaxStream, m \in 0 .. MaxStream, base \in ByteBases :
    \E eng \in AudioEngines(mode) :
        /\ cimpl = "direct"
        /\ IdleCodec
        /\ flags = NoFlags
        /\ entry = "processAudio"
        /\ config = [ Mode |-> mode, FrameSize |-> fs, UsePrevSpeaker |-> prev,
                      SampleRate |-> defaultSampleRate,
                      FilterLen |-> defaultFilterLen,
                      ProgressSec |-> defaultProgressSec ]
        /\ micFile = [ data |-> Stream(base, n), pos |-> 0 ]
        /\ speakerFile = [ data |-> Stream(FarBase(base), m), pos |-> 0,
                           opened |-> needsSpeakerFile(config) ]
        /\ outFile = << >>
        /\ aec = eng.aec
        /\ separateNS = eng.ns
        /\ micAlawFrame = << >>
        /\ speakerAlawFrame = << >>
        /\ micPcmFrame = << >>
        /\ speakerPcmFrame = << >>
        /\ prevSpeakerPcmFrame = << >>
        /\ micBytesRead = 0
        /\ speakerBytesRead = 0
        /\ outputAlawFrame = << >>
        /\ frameCount = 0
        /\ pc = "alloc"
        /\ err = NoErr
        /\ calls = << >>
        /\ obs = NoObs

NextAudio ==
    \/ AllocateBuffers
    \/ ReadMic
    \/ ReadSpeaker
    \/ Convert
    \/ ProcessOneFrame
    \/ WriteOutput

SpecAudio == InitAudio /\ [][NextAudio]_vars

(***************************************************************************)
(* Codec harness: a value is converted back and forth                      *)
(***************************************************************************)

\* how many values a chain holds at most
MaxChain == 4

Last(s) == s[Len(s)]

CodecInit ==
    /\ cimpl \in CodecImpls
    /\ chain \in { << [k |-> "pcm", v |-> x] >> : x \in Int16 }
                 \cup { << [k |-> "alaw", v |-> b] >> : b \in Uint8 }
    /\ IdlePipeline

\* one call of the scalar encoder on the last value
CodecEncode ==
    /\ Len(chain) < MaxChain
    /\ Last(chain).k = "pcm"
    /\ chain' = Append(chain, [k |-> "alaw", v |-> Encode(cimpl, Last(chain).v)])
    /\ UNCHANGED << cimpl, pipelineVars >>

\* one call of the scalar decoder on the last value
CodecDecode ==
    /\ Len(chain) < MaxChain
    /\ Last(chain).k = "alaw"
    /\ chain' = Append(chain, [k |-> "pcm", v |-> Decode(cimpl, Last(chain).v)])
    /\ UNCHANGED << cimpl, pipelineVars >>

CodecNext == CodecEncode \/ CodecDecode

SpecCodec == CodecInit /\ [][CodecNext]_vars

(***************************************************************************)
(* Properties of the codec                                                 *)
(***************************************************************************)

\* a chain of the direct codec that starts from the A-law byte b / the sample x
FromAlaw(b) == cimpl = "direct" /\ Len(chain) >= 1 /\ chain[1] = [k |-> "alaw", v |-> b]
FromPcm(x) == cimpl = "direct" /\ Len(chain) >= 1 /\ chain[1] = [k |-> "pcm", v |-> x]

\* C1 as stated: decoding the silence code 0xD5 gives exactly 0, and encoding
\* the sample 0 gives exactly 0xD5.
C1_SilenceDecodesToZero ==
    /\ (FromAlaw(213) /\ Len(chain) >= 2) => chain[2].v = 0
    /\ (FromPcm(0) /\ Len(chain) >= 2) => chain[2].v = 213

\* C1 amended: decoding the silence code 0xD5 gives 8, the smallest positive
\* level of G.711 (not 0), which encodes back to 0xD5; encoding the sample 0
\* gives exactly 0xD5.
C1_SilenceRoundTrip ==
    /\ (FromAlaw(213) /\ Len(chain) >= 2) => chain[2].v = 8
    /\ (FromAlaw(213) /\ Len(chain) >= 3) => chain[3].v = 213
    /\ (FromPcm(0) /\ Len(chain) >= 2) => chain[2].v = 213

\* the silence code has been decoded and the result encoded again
C1_Witness == FromAlaw(213) /\ Len(chain) = 3

\* the place of an A-law byte in magnitude order, and its sign bit
MagnitudeIndex(b) == Xor8(b, 85) % 128
SignOf(b) == Xor8(b, 85) \div 128

\* b and c are the same code or neighbours of the same sign
WithinOneStep(b, c) ==
    /\ SignOf(b) = SignOf(c)
    /\ MagnitudeIndex(b) - MagnitudeIndex(c) \in { -1, 0, 1 }

\* C2: for every A-law byte b, Linear2Alaw(Alaw2Linear(b)) is b or the
\* neighbouring code of the same sign (at most one quantization step away).
C2_ReencodeWithinOneStep ==
    (cimpl = "direct" /\ Len(chain) >= 3 /\ chain[1].k = "alaw")
        => WithinOneStep(chain[1].v, chain[3].v)

\* a code at the top of segment 1 has been decoded and encoded again
C2_Witness == FromAlaw(74) /\ Len(chain) = 3 /\ chain[3].k = "alaw"

(***************************************************************************)
(* Properties of the frame loop                                            *)
(***************************************************************************)

\* the frame size of the run
F == config.FrameSize

\* the length of the near-end and of the far-end stream
N == Len(micFile.data)
M == Len(speakerFile.data)

\* a / b rounded up
Ceil(a, b) == (a + b - 1) \div b

\* bytes followed by the silence code up to length n
PadTo(bytes, n) == [i \in 1 .. n |-> IF i <= Len(bytes) THEN bytes[i] ELSE 213]

\* the scalar decoder applied to every byte of a frame
DecodedFrame(frame) == [i \in 1 .. Len(frame) |-> Decode(cimpl, frame[i])]

\* the run uses the far-end stream
FarEnd == NeedsSpeaker(entry, config)

\* the run is over and returned no error
EndedClean == pc = "done" /\ err = NoErr

\* the frame that is processed is the bytes just read followed by 0xD5 up to
\* the frame size, on the near end and on the far end when it is in use, and
\* the frame that processing returns is a full frame
PaddedFrameProcessed ==
    /\ pc \in { "process", "write" } =>
          /\ micAlawFrame = PadTo(obs.lastMic, F)
          /\ micPcmFrame = DecodedFrame(micAlawFrame)
          /\ FarEnd => /\ speakerAlawFrame = PadTo(obs.lastSpk, F)
                       /\ speakerPcmFrame = DecodedFrame(speakerAlawFrame)
    /\ pc = "write" => Len(outputAlawFrame) = F

\* C3 as stated: a short near-end or far-end read of n bytes, 1 <= n < F, is
\* processed as those n bytes followed by F-n bytes of 0xD5, nothing of the
\* previous iteration surviving, and always produces one full output frame:
\* in a run that ends without error every near-end read that returned bytes
\* has been followed by the write of a frame.
C3_ShortFrameAlwaysWritten ==
    /\ PaddedFrameProcessed
    /\ (EndedClean /\ Len(obs.lastMic) \in 1 .. F - 1) =>
          obs.writes = obs.micReads

\* C3 amended: the padding is as stated, and the padded frame produces one
\* full output frame unless the run fails or the far-end stream is found
\* exhausted in the same iteration: whenever the loop is back at the near-end
\* read every read so far has produced a full frame, and a run that ends
\* without error after a near-end read that returned bytes did so because the
\* far-end read of that iteration returned none.
C3_ShortFramePaddedAndWritten ==
    /\ PaddedFrameProcessed
    /\ pc = "read_mic" => /\ obs.writes = obs.micReads
                          /\ Len(outFile) = F * obs.micReads
    /\ (EndedClean /\ Len(obs.lastMic) >= 1) =>
          /\ FarEnd
          /\ obs.lastSpk = << >>
          /\ obs.writes = obs.micReads - 1

\* a second iteration read short frames from both streams into buffers that
\* held the first iteration's bytes, and the padded frame was processed
C3_Witness ==
    /\ pc = "write"
    /\ FarEnd
    /\ frameCount = 1
    /\ micBytesRead \in 1 .. F - 1
    /\ speakerBytesRead \in 1 .. F - 1
    /\ micAlawFrame[F] = 213
    /\ speakerAlawFrame[F] = 213

\* C4: in the modes that need no far-end stream, a run over a near-end stream
\* of N bytes with frame size F > 0 that ends without failure has written
\* exactly ceil(N/F) frames, that is ceil(N/F)*F bytes.
C4_FramesWrittenNoFarEnd ==
    (EndedClean /\ ~FarEnd) =>
        /\ frameCount = Ceil(N, F)
        /\ obs.writes = Ceil(N, F)
        /\ Len(outFile) = Ceil(N, F) * F

\* a run without far end over one full frame and one byte wrote two frames
C4_Witness ==
    /\ EndedClean
    /\ ~FarEnd
    /\ F = 2
    /\ N = 3
    /\ Len(outFile) = 4

\* C5: in the modes that need the far-end stream the loop never goes on after
\* a read that returned zero bytes; a run that ends without error has written
\* exactly min(ceil(N/F), ceil(M/F)) frames; and a near-end frame read in the
\* iteration in which the far end is found exhausted produces no output.
C5_StopsAtFirstExhaustedStream ==
    FarEnd =>
        /\ pc \in { "read_speaker", "convert", "process", "write" } =>
              micBytesRead >= 1
        /\ pc \in { "convert", "process", "write" } => speakerBytesRead >= 1
        /\ EndedClean =>
              /\ frameCount = Min(Ceil(N, F), Ceil(M, F))
              /\ Len(outFile) = F * frameCount
              /\ obs.micReads = frameCount + 1
              /\ Len(obs.lastMic) >= 1 =>
                    /\ obs.lastSpk = << >>
                    /\ obs.spkReads = obs.micReads
                    /\ obs.writes = obs.micReads - 1

\* the far end ran out first: the near-end frame read last produced no output
C5_Witness ==
    /\ EndedClean
    /\ FarEnd
    /\ Ceil(M, F) < Ceil(N, F)
    /\ frameCount = 1
    /\ Len(obs.lastMic) >= 1

\* the far-end operand of the echo canceller in the engine calls of the
\* current iteration
FarOperands == { calls[i].far : i \in { j \in 1 .. Len(calls) : calls[j].op # "ns" } }

\* C6: with delay compensation in a mode that needs the far-end stream, the
\* far-end frame handed to the engine in iteration n is the decoded far-end
\* frame of iteration n-1, in iteration 1 an all-zero frame, and never the
\* far-end frame read in iteration n itself.
C6_EngineGetsPreviousFarFrame ==
    (FarEnd /\ config.UsePrevSpeaker /\ calls # << >>) =>
        LET n == Len(obs.spkFrames)
        IN  /\ n = obs.micReads
            /\ FarOperands = { IF n = 1 THEN Zeroed(F) ELSE obs.spkFrames[n - 1] }
            /\ obs.spkFrames[n] \notin FarOperands

\* the second iteration handed the first iteration's far-end frame to the engine
C6_Witness ==
    /\ FarEnd
    /\ config.UsePrevSpeaker
    /\ pc = "write"
    /\ Len(obs.spkFrames) = 2
    /\ FarOperands = { obs.spkFrames[1] }

\* C7: in Bypass mode every output frame equals the near-end compressed frame
\* of its iteration, the bytes read followed by 0xD5 on a short final frame,
\* whatever the bytes are: the output is the near-end bytes consumed so far,
\* padded with 0xD5 to a whole number of frames.
C7_BypassCopiesNearEnd ==
    config.Mode = ModeBypass =>
        /\ pc = "write" => /\ outputAlawFrame = micAlawFrame
                           /\ outputAlawFrame = PadTo(obs.lastMic, F)
        /\ pc = "read_mic" =>
              outFile = PadTo(SubSeq(micFile.data, 1, micFile.pos), F * frameCount)

\* Process has passed a short final frame of bytes outside the usual bases
\* through Bypass mode
C7_Witness ==
    /\ config.Mode = ModeBypass
    /\ entry = "Process"
    /\ pc = "read_mic"
    /\ micFile.data = << 42, 79, 116 >>
    /\ outFile = << 42, 79, 116, 213 >>

\* the engine operations of the current iteration, in order
Ops == [i \in 1 .. Len(calls) |-> calls[i].op]

\* the operations each mode is to invoke for a frame
StageOrder(mode) ==
    CASE mode = ModeBypass -> << >>
      [] mode = ModeTestAlaw -> << >>
      [] mode = ModeNSOnly -> << "ns" >>
      [] mode = ModeAECOnly -> << "echo" >>
      [] mode = ModeNSFirst -> << "ns", "echo" >>
      [] mode = ModeAECFirst -> << "both" >>

\* C8: the engine operations invoked for a frame depend on the mode alone:
\* Bypass and TestAlaw none, NSOnly [ns], AECOnly [echo-only], NSFirst
\* [ns, echo-only] in that order, AECFirst one combined call; no other engine
\* operation is invoked.
C8_ModeDispatch ==
    /\ pc = "write" =>
          /\ Ops = StageOrder(config.Mode)
          /\ obs.engineCalls = Len(StageOrder(config.Mode)) * (frameCount + 1)
    /\ pc = "read_mic" =>
          obs.engineCalls = Len(StageOrder(config.Mode)) * frameCount
    /\ pc \in { "read_speaker", "convert", "process" } => calls = << >>
    /\ config.Mode \in { ModeBypass, ModeTestAlaw } => obs.engineCalls = 0

\* NSFirst has suppressed noise and then cancelled echo for the second frame
C8_Witness ==
    /\ config.Mode = ModeNSFirst
    /\ entry = "Process"
    /\ pc = "write"
    /\ frameCount = 1
    /\ Ops = << "ns", "echo" >>

\* C9: needsSpeakerFile is false for exactly Bypass, TestAlaw and NSOnly and
\* true for AECOnly, NSFirst and AECFirst, and the far-end stream is opened
\* and read only when it is true.
C9_FarEndOnlyWhenNeeded ==
    /\ needsSpeakerFile(config) <=>
          config.Mode \in { ModeAECOnly, ModeNSFirst, ModeAECFirst }
    /\ (speakerFile.opened \/ speakerFile.pos > 0 \/ obs.spkReads > 0) =>
          needsSpeakerFile(config)
    /\ (needsSpeakerFile(config) /\ pc \in { "convert", "process", "write" }) =>
          /\ speakerFile.opened
          /\ obs.spkReads = obs.micReads

\* the codec test mode has processed a frame without touching the far end
C9_Witness ==
    /\ config.Mode = ModeTestAlaw
    /\ M >= 1
    /\ pc = "write"
    /\ ~speakerFile.opened
    /\ speakerFile.pos = 0

\* the state of a run that an engine failure at frame index k has ended
AbortedAtFrame ==
    err.frame >= 0 =>
        /\ pc = "done"
        /\ err.frame = frameCount
        /\ obs.writes = err.frame
        /\ Len(outFile) = F * err.frame
        /\ obs.micReads = err.frame + 1
        /\ calls # << >>
        /\ obs.engineCalls = Len(StageOrder(config.Mode)) * err.frame + Len(calls)

\* C10: when an engine stage fails on the frame with index k the run ends
\* with an error that carries k, exactly k frames are in the output, none was
\* written for frame k, and no read, engine call or write follows.
C10_AbortAtFailedFrame ==
    /\ [] AbortedAtFrame
    /\ [][err.frame < 0]_vars

\* the echo canceller has rejected a frame while input remained to be read
C10_Witness ==
    /\ err = FrameError("AEC processing failed", 0)
    /\ pc = "done"
    /\ micFile.pos < N
    /\ outFile = << >>

(***************************************************************************)
(* Properties of the engines' lifetime                                     *)
(***************************************************************************)

\* C11: every engine instance created during a run of Process, the echo
\* canceller or the standalone noise suppressor, has been destroyed when
\* Process returns, on every exit path: end of a stream, engine failure, I/O
\* failure, and failure to create the second instance after the first.
C11_EnginesDestroyedOnReturn ==
    (entry = "Process" /\ pc = "done") =>
        /\ aec.state # "live"
        /\ separateNS.state # "live"

(***************************************************************************)
(* Termination                                                             *)
(***************************************************************************)

\* A run is sequential code: the step the program counter stands at is
\* eventually taken.  This is weak fairness of every action; for Convert and
\* ProcessOneFrame it is written out, each being enabled exactly when the
\* program counter stands at it.
RunsToCompletion ==
    /\ WF_vars(OpenFiles)
    /\ WF_vars(InitializeComponents)
    /\ WF_vars(AllocateBuffers)
    /\ WF_vars(ReadMic)
    /\ WF_vars(ReadSpeaker)
    /\ WF_vars(WriteOutput)
    /\ WF_vars(Cleanup)
    /\ ([]<>(pc # "convert") \/ []<><<Convert>>_vars)
    /\ ([]<>(pc # "process") \/ []<><<ProcessOneFrame>>_vars)

SpecLive == Spec /\ RunsToCompletion

\* the near-end reads never exceed ceil(N/F)+1, and a run that stops at a
\* near-end read of zero bytes at the end of the stream returns no error
StopsAtNearEndExhaustion ==
    /\ obs.micReads <= Ceil(N, F) + 1
    /\ (pc \in { "cleanup", "done" } /\ obs.micReads = Ceil(N, F) + 1) =>
          /\ micFile.pos = N
          /\ micBytesRead = 0
          /\ err \in { NoErr, Error("error reading mic file") }
    /\ (EndedClean /\ ~FarEnd) => obs.micReads = Ceil(N, F) + 1

\* C12: for every frame size >= 1 and every pair of finite streams the run
\* eventually terminates; it stops with no error at the first near-end read
\* that yields zero bytes, after at most ceil(N/F)+1 near-end reads.
C12_Terminates ==
    /\ <>(pc = "done")
    /\ [] StopsAtNearEndExhaustion

\* a run over a stream of two frames ended cleanly at its third near-end read
C12_Witness ==
    /\ EndedClean
    /\ F = 2
    /\ N = 4
    /\ obs.micReads = 3
    /\ frameCount = 2

(***************************************************************************)
(* Buffer conversion harness: one call of a buffer function on a           *)
(* compressed and a linear buffer of any lengths                           *)
(***************************************************************************)

\* the longest buffer tried
MaxBuf == 5

\* the contents tried
BufferBytes == { 42, 213 }
BufferSamples == { -1234, 100 }

\* the sequences over S of length at most n
SeqsUpTo(S, n) == UNION { [1 .. k -> S] : k \in 0 .. n }

BufferInit ==
    /\ cimpl \in CodecImpls
    /\ IdleCodec
    /\ flags = NoFlags
    /\ entry = "buffers"
    /\ config = [ Mode |-> ModeBypass, FrameSize |-> 0, UsePrevSpeaker |-> FALSE,
                  SampleRate |-> 0, FilterLen |-> 0,
                  ProgressSec |-> Seconds(0, 1) ]
    /\ micFile = [ data |-> << >>, pos |-> 0 ]
    /\ speakerFile = [ data |-> << >>, pos |-> 0, opened |-> FALSE ]
    /\ outFile = << >>
    /\ aec = NoEngine
    /\ separateNS = NoEngine
    /\ micAlawFrame \in SeqsUpTo(BufferBytes, MaxBuf)
    /\ speakerAlawFrame = << >>
    /\ micPcmFrame \in SeqsUpTo(BufferSamples, MaxBuf)
    /\ speakerPcmFrame = << >>
    /\ prevSpeakerPcmFrame = << >>
    /\ micBytesRead = 0
    /\ speakerBytesRead = 0
    /\ outputAlawFrame = << >>
    /\ frameCount = 0
    /\ pc = "buffers"
    /\ err = NoErr
    /\ calls = << >>
    /\ obs = NoObs

\* AlawBufferToPCM16(alaw, pcm)
BufferDecode ==
    /\ pc = "buffers"
    /\ micPcmFrame' = AlawBufferToPCM16(cimpl, micAlawFrame, micPcmFrame)
    /\ pc' = "decoded"
    /\ UNCHANGED << flags, cimpl, chain, entry, config, micFile, speakerFile, outFile,
                    engines, micAlawFrame, speakerAlawFrame, speakerPcmFrame,
                    prevSpeakerPcmFrame, outputAlawFrame, micBytesRead,
                    speakerBytesRead, frameCount, err, calls, obs >>

\* PCM16BufferToAlaw(pcm, alaw)
BufferEncode ==
    /\ pc = "buffers"
    /\ micAlawFrame' = PCM16BufferToAlaw(cimpl, micPcmFrame, micAlawFrame)
    /\ pc' = "encoded"
    /\ UNCHANGED << flags, cimpl, chain, entry, config, micFile, speakerFile, outFile,
                    engines, speakerAlawFrame, micPcmFrame, speakerPcmFrame,
                    prevSpeakerPcmFrame, outputAlawFrame, micBytesRead,
                    speakerBytesRead, frameCount, err, calls, obs >>

BufferNext == BufferDecode \/ BufferEncode

SpecBuffer == BufferInit /\ [][BufferNext]_vars

\* dst after the call: the first min(len(src), len(dst)) elements are the
\* conversions of the source's, the others are what they were
ConvertedPrefix(src, dst, after, conv(_)) ==
    /\ Len(after) = Len(dst)
    /\ \A i \in 1 .. Len(dst) :
          after[i] = IF i <= Min(Len(src), Len(dst)) THEN conv(src[i]) ELSE dst[i]

DecodeByte(b) == Decode(cimpl, b)
EncodeSample(x) == Encode(cimpl, x)

\* C13: AlawBufferToPCM16 and PCM16BufferToAlaw, for buffers of any lengths,
\* write exactly the destination indices below min(len(src), len(dst)) with
\* the scalar conversion of the source element of the same index, leave the
\* rest of the destination and the whole source as they were, and never fail.
C13_BufferConversionTruncates ==
    [][ /\ pc' = "decoded" =>
              /\ ConvertedPrefix(micAlawFrame, micPcmFrame, micPcmFrame', DecodeByte)
              /\ micAlawFrame' = micAlawFrame
        /\ pc' = "encoded" =>
              /\ ConvertedPrefix(micPcmFrame, micAlawFrame, micAlawFrame', EncodeSample)
              /\ micPcmFrame' = micPcmFrame ]_vars

\* five samples were encoded into a buffer of three bytes
C13_Witness ==
    /\ pc = "encoded"
    /\ Len(micPcmFrame) = 5
    /\ Len(micAlawFrame) = 3
    /\ \A i \in 1 .. 3 : micAlawFrame[i] = EncodeSample(micPcmFrame[i])

(***************************************************************************)
(* Properties of the round trip of a sample                                *)
(***************************************************************************)

\* the tolerance TestAlawRoundTrip allows at a magnitude
TestTolerance(a) == IF a > 10000 THEN 1000 ELSE IF a > 1000 THEN 100 ELSE 10

\* the values TestAlawRoundTrip tries
TestValues == { 0, 100, -100, 1000, -1000, 10000, -10000 }

\* half the largest quantization step met in each of the three bands
StepTolerance(a) == IF a > 10000 THEN 512 ELSE IF a > 1000 THEN 256 ELSE 16

\* a sample has been encoded and decoded with the direct codec
RoundTripDone ==
    cimpl = "direct" /\ Len(chain) >= 3 /\ chain[1].k = "pcm"

RoundTripError == Abs(chain[3].v - chain[1].v)

\* C14 as stated: for every 16-bit sample x the round-trip error
\* |Alaw2Linear(Linear2Alaw(x)) - x| is at most 10 when |x| <= 1000, at most
\* 100 when 1000 < |x| <= 10000 and at most 1000 when |x| > 10000.
C14_RoundTripWithinTestBand ==
    RoundTripDone => RoundTripError <= TestTolerance(Abs(chain[1].v))

\* C14 amended: the round-trip error is at most 16 when |x| <= 1000, at most
\* 256 when 1000 < |x| <= 10000 and at most 512 when |x| > 10000; the bands
\* 10 / 100 / 1000 hold for the seven values the test tries.
C14_RoundTripWithinStepBand ==
    RoundTripDone =>
        /\ RoundTripError <= StepTolerance(Abs(chain[1].v))
        /\ chain[1].v \in TestValues =>
              RoundTripError <= TestTolerance(Abs(chain[1].v))

\* a sample of the middle band came back 101 away
C14_Witness ==
    /\ FromPcm(-9883)
    /\ Len(chain) = 3
    /\ chain[3].v = -9984

(***************************************************************************)
(* Properties of the pairing of the two streams                            *)
(***************************************************************************)

\* C15: without delay compensation the far-end frame handed to the engine in
\* iteration n is the far-end frame read in iteration n, paired with near-end
\* frame n; getAECSpeakerFrame returns the retained previous frame if and
\* only if UsePrevSpeaker is set and the current frame otherwise.
C15_EngineGetsCurrentFarFrame ==
    /\ (FarEnd /\ ~config.UsePrevSpeaker /\ calls # << >>) =>
          LET n == Len(obs.spkFrames)
          IN  /\ n = obs.micReads
              /\ obs.spkReads = n
              /\ FarOperands = { obs.spkFrames[n] }
              /\ obs.spkFrames[n] = DecodedFrame(PadTo(obs.lastSpk, F))
              /\ calls[1].near = DecodedFrame(PadTo(obs.lastMic, F))
    /\ pc = "process" =>
          getAECSpeakerFrame(config, speakerPcmFrame, prevSpeakerPcmFrame)
              = IF config.UsePrevSpeaker THEN prevSpeakerPcmFrame
                ELSE speakerPcmFrame

\* the second iteration handed its own far-end frame to the engine
C15_Witness ==
    /\ FarEnd
    /\ ~config.UsePrevSpeaker
    /\ pc = "write"
    /\ Len(obs.spkFrames) = 2
    /\ FarOperands = { obs.spkFrames[2] }
    /\ obs.spkFrames[2] # obs.spkFrames[1]

(***************************************************************************)
(* Properties of stream I/O failures                                       *)
(***************************************************************************)

MicReadError == Error("error reading mic file")
SpeakerReadError == Error("error reading speaker file")
WriteError == Error("error writing output")

\* the run has returned, or is running its deferred calls
Returned == pc \in { "cleanup", "done" }

\* what holds once a failed read or write has ended the run, and while none has
AbortedByIO ==
    /\ err \in { MicReadError, SpeakerReadError, WriteError } => Returned
    /\ err = MicReadError =>
          /\ obs.micReads = frameCount + 1
          /\ FarEnd => obs.spkReads = frameCount
          /\ Len(outFile) = F * frameCount
    /\ err = SpeakerReadError =>
          /\ FarEnd
          /\ obs.micReads = frameCount + 1
          /\ obs.spkReads = frameCount + 1
          /\ Len(outFile) = F * frameCount
    /\ err = WriteError =>
          /\ obs.micReads = frameCount + 1
          /\ Len(outFile) >= F * frameCount
          /\ Len(outFile) < F * (frameCount + 1)
    /\ obs.writes = frameCount
    /\ err # WriteError => Len(outFile) = F * frameCount
    /\ (Returned /\ err = NoErr) =>
          \/ micFile.pos = N /\ micBytesRead = 0
          \/ FarEnd /\ speakerFile.pos = M /\ speakerBytesRead = 0

\* what a step may do: the output only grows at its end, and after a failed
\* read or write nothing is read, processed or written any more
NothingAfterIOFailure ==
    /\ Len(outFile') >= Len(outFile)
    /\ SubSeq(outFile', 1, Len(outFile)) = outFile
    /\ err \in { MicReadError, SpeakerReadError, WriteError } =>
          /\ pc = "cleanup"
          /\ pc' = "done"
          /\ UNCHANGED << micFile, speakerFile, outFile, frameCount, obs, calls, err >>

\* C16: a read error that is neither the end of the stream nor a short final
\* read, or a write error, ends the run at once with an error that names the
\* failing stream: the frames written before remain in the output, the
\* failing iteration writes nothing more, and no later iteration runs.
C16_IOFailureAborts ==
    /\ [] AbortedByIO
    /\ [][NothingAfterIOFailure]_vars

\* the far-end read of the second iteration failed while input remained
C16_Witness ==
    /\ err = SpeakerReadError
    /\ pc = "done"
    /\ frameCount = 1
    /\ micFile.pos < N
    /\ Len(outFile) = F

(***************************************************************************)
(* Progress harness: the frame loop with sample rates and progress         *)
(* intervals small enough for progress lines to fall due within a run      *)
(***************************************************************************)

\* sample rates, frame sizes and -progress-sec values tried (all of them
\* binary fractions, which float64 holds exactly)
ProgressRates == { 1, 2, 4 }
ProgressFrameSizes == { 1, 2 }
ProgressIntervals ==
    { Seconds(0, 1), Seconds(-1, 1), Seconds(1, 4), Seconds(3, 4),
      Seconds(1, 1), Seconds(2, 1) }

InitProgress ==
    \E mode \in { ModeBypass, ModeAECOnly }, fs \in ProgressFrameSizes :
    \E rate \in ProgressRates, every \in ProgressIntervals, n \in 0 .. MaxStream :
        /\ cimpl = "direct"
        /\ IdleCodec
        /\ flags = NoFlags
        /\ entry = "processAudio"
        /\ config = [ Mode |-> mode, FrameSize |-> fs, UsePrevSpeaker |-> FALSE,
                      SampleRate |-> rate, FilterLen |-> defaultFilterLen,
                      ProgressSec |-> every ]
        /\ micFile = [ data |-> Stream(213, n), pos |-> 0 ]
        /\ speakerFile = [ data |-> Stream(FarBase(213), n), pos |-> 0,
                           opened |-> needsSpeakerFile(config) ]
        /\ outFile = << >>
        /\ aec = IF mode = ModeAECOnly THEN LiveEngine(fs) ELSE NoEngine
        /\ separateNS = NoEngine
        /\ micAlawFrame = << >>
        /\ speakerAlawFrame = << >>
        /\ micPcmFrame = << >>
        /\ speakerPcmFrame = << >>
        /\ prevSpeakerPcmFrame = << >>
        /\ micBytesRead = 0
        /\ speakerBytesRead = 0
        /\ outputAlawFrame = << >>
        /\ frameCount = 0
        /\ pc = "alloc"
        /\ err = NoErr
        /\ calls = << >>
        /\ obs = NoObs

SpecProgress == InitProgress /\ [][NextAudio]_vars

\* the integer nearest to n/d for n >= 0, d > 0, the upper one on a tie
Round(n, d) == CHOOSE k \in 0 .. n + 1 : (2 * k - 1) * d <= 2 * n /\ 2 * n < (2 * k + 1) * d

\* round(sampleRate / frameSize * intervalSeconds), at least one frame
ProgressEvery ==
    LET k == Round(config.SampleRate * config.ProgressSec.num,
                   F * config.ProgressSec.den)
    IN  IF k < 1 THEN 1 ELSE k

\* the progress lines so far are those of the positive multiples of the
\* interval up to the frame counter, each with the elapsed time
\* count * frameSize / sampleRate, printed to the nearest tenth of a second
ProgressOnCadence ==
    /\ obs.writes = frameCount
    /\ config.ProgressSec.num = 0 => obs.progress = << >>
    /\ config.ProgressSec.num > 0 =>
          /\ Len(obs.progress) = frameCount \div ProgressEvery
          /\ \A i \in 1 .. Len(obs.progress) :
                LET p == obs.progress[i]
                IN  /\ p.frames = i * ProgressEvery
                    /\ p.duration.num * config.SampleRate
                          = p.frames * F * p.duration.den
                    /\ 2 * Abs(10 * p.frames * F - p.text * config.SampleRate)
                          <= config.SampleRate

\* C17: the frame counter goes up by exactly one per written frame, and a
\* progress line is emitted exactly when the counter is a positive multiple
\* of round(sampleRate/frameSize * intervalSeconds), reporting the elapsed
\* seconds count*frameSize/sampleRate; with an interval of 0 none is ever
\* emitted, and a computed interval below one frame counts as one frame.
C17_ProgressCadence ==
    /\ [] ProgressOnCadence
    /\ [][ /\ frameCount' \in { frameCount, frameCount + 1 }
           /\ frameCount' = frameCount + 1 <=> Len(outFile') = Len(outFile) + F
           /\ frameCount' = frameCount => obs'.progress = obs.progress ]_vars

\* at 2 Hz, one sample a frame and 0.75 s the interval is 2 frames (1.5
\* rounded up): four frames gave the lines of frames 2 and 4
C17_Witness ==
    /\ config.SampleRate = 2
    /\ F = 1
    /\ config.ProgressSec = Seconds(3, 4)
    /\ frameCount = 4
    /\ Len(obs.progress) = 2
    /\ obs.progress[1].frames = 2
    /\ obs.progress[2].frames = 4
    /\ obs.progress[2].text = 20

(***************************************************************************)
(* ParseFlags on its own: every command line of FlagInputs is parsed once  *)
(***************************************************************************)

FlagPaths == { "", "audio.alaw" }
FlagSampleRates == { -11025, 0, 11025, 16000 }
FlagFrameSizes == { -1, 0, 320 }
FlagEchoTails == { 0, 150, 200 }
FlagFilterLens == { -1, 0, 1024 }

\* the command lines: every combination of the mode flags, of present and
\* absent paths, and of positive, zero and negative sizes
FlagInputs ==
    { [ NoFlags EXCEPT !.mic = a.mic, !.speaker = a.speaker, !.help = a.help,
                       !.nsFirst = a.nsFirst, !.nsOnly = a.nsOnly,
                       !.aecOnly = a.aecOnly, !.bypass = a.bypass,
                       !.testAlaw = a.testAlaw, !.sampleRate = a.sampleRate,
                       !.frameSize = a.frameSize, !.echoTail = a.echoTail,
                       !.filterLen = a.filterLen ] :
        a \in [ mic : FlagPaths, speaker : FlagPaths, help : BOOLEAN,
                nsFirst : BOOLEAN, nsOnly : BOOLEAN, aecOnly : BOOLEAN,
                bypass : BOOLEAN, testAlaw : BOOLEAN,
                sampleRate : FlagSampleRates, frameSize : FlagFrameSizes,
                echoTail : FlagEchoTails, filterLen : FlagFilterLens ] }

FlagsInit ==
    /\ cimpl = "direct"
    /\ IdleCodec
    /\ flags \in FlagInputs
    /\ entry = "ParseFlags"
    /\ config = NilConfig
    /\ micFile = [ data |-> << >>, pos |-> 0 ]
    /\ speakerFile = [ data |-> << >>, pos |-> 0, opened |-> FALSE ]
    /\ outFile = << >>
    /\ aec = NoEngine
    /\ separateNS = NoEngine
    /\ micAlawFrame = << >>
    /\ speakerAlawFrame = << >>
    /\ micPcmFrame = << >>
    /\ speakerPcmFrame = << >>
    /\ prevSpeakerPcmFrame = << >>
    /\ micBytesRead = 0
    /\ speakerBytesRead = 0
    /\ outputAlawFrame = << >>
    /\ frameCount = 0
    /\ pc = "flags"
    /\ err = NoErr
    /\ calls = << >>
    /\ obs = NoObs

\* config, err := ParseFlags()
ParseFlagsCall ==
    /\ pc = "flags"
    /\ LET r == ParseFlags(flags)
       IN  /\ config' = r.cfg
           /\ err' = IF r.err = "" THEN NoErr ELSE Error(r.err)
    /\ pc' = "parsed"
    /\ UNCHANGED << flags, cimpl, chain, entry, micFile, speakerFile, outFile,
                    aec, separateNS, micAlawFrame, speakerAlawFrame,
                    micPcmFrame, speakerPcmFrame, prevSpeakerPcmFrame,
                    micBytesRead, speakerBytesRead, outputAlawFrame,
                    frameCount, calls, obs >>

SpecFlags == FlagsInit /\ [][ParseFlagsCall]_vars

\* the modes of the mode flags that are set on the command line
ModesSet ==
    { m \in { ModeNSFirst, ModeNSOnly, ModeAECOnly, ModeBypass, ModeTestAlaw } :
        \/ m = ModeNSFirst /\ flags.nsFirst
        \/ m = ModeNSOnly /\ flags.nsOnly
        \/ m = ModeAECOnly /\ flags.aecOnly
        \/ m = ModeBypass /\ flags.bypass
        \/ m = ModeTestAlaw /\ flags.testAlaw }

\* ParseFlags has returned an error and no configuration
Rejected == pc = "parsed" /\ err # NoErr /\ config = NilConfig

\* ParseFlags has returned a configuration and no error
Accepted == pc = "parsed" /\ err = NoErr /\ config # NilConfig

\* C18: with more than one mode flag set ParseFlags returns an error and no
\* configuration; a configuration it returns has the mode of the one mode flag
\* that is set, or the AEC-first mode when none is set.
C18_ExactlyOneMode ==
    pc = "parsed" =>
        /\ Rejected \/ Accepted
        /\ Cardinality(ModesSet) > 1 => Rejected
        /\ Accepted /\ Cardinality(ModesSet) = 1 => ModesSet = { config.Mode }
        /\ Accepted /\ ModesSet = {} => config.Mode = ModeAECFirst

\* two mode flags are rejected although both paths are given
C18_Witness ==
    /\ Rejected
    /\ flags.mic # "" /\ flags.speaker # "" /\ ~flags.help
    /\ ModesSet = { ModeNSOnly, ModeBypass }

\* the far-end path is required in this mode
SpeakerRequiredModes == { ModeAECOnly, ModeNSFirst, ModeAECFirst }

\* the mode the command line selects, when it sets at most one mode flag
SelectedMode == IF ModesSet = {} THEN ModeAECFirst ELSE CHOOSE m \in ModesSet : TRUE

\* C19: ParseFlags returns an error and no configuration when the near-end
\* path is empty, and when the far-end path is empty in the AEC-only, NS-first
\* and AEC-first modes; in the NS-only, bypass and codec-test modes a command
\* line with a near-end path and no far-end path is accepted.
C19_RequiredPaths ==
    pc = "parsed" =>
        /\ flags.mic = "" => Rejected
        /\ (/\ flags.speaker = ""
            /\ Cardinality(ModesSet) <= 1
            /\ SelectedMode \in SpeakerRequiredModes) => Rejected
        /\ (/\ flags.speaker = ""
            /\ flags.mic # ""
            /\ ~flags.help
            /\ Cardinality(ModesSet) = 1
            /\ SelectedMode \notin SpeakerRequiredModes)
           => /\ Accepted
              /\ config.Mode = SelectedMode
              /\ config.MicFile = flags.mic
              /\ config.SpeakerFile = ""

\* the AEC-only mode with a near-end path and no far-end path is rejected
C19_Witness ==
    /\ Rejected
    /\ flags.mic # "" /\ flags.speaker = "" /\ ~flags.help
    /\ ModesSet = { ModeAECOnly }

\* the codec test with a near-end path and no far-end path is accepted
C19_AcceptedWithoutSpeaker ==
    /\ Accepted
    /\ flags.mic # "" /\ flags.speaker = "" /\ ~flags.help
    /\ ModesSet = { ModeTestAlaw }

\* C20: every configuration ParseFlags returns without error has a positive
\* FrameSize, a positive SampleRate and a positive FilterLen.
C20_ReturnedConfigPositive ==
    Accepted => /\ config.FrameSize > 0
                /\ config.SampleRate > 0
                /\ config.FilterLen > 0

\* a zero frame size is returned as a configuration, without an error
C20_ZeroFrameSizeAccepted ==
    /\ Accepted
    /\ flags.frameSize = 0
    /\ config.FrameSize = 0

\* what ParseFlags does establish: the sizes are the flags' values, and the
\* filter length is the flag's value if positive, else derived from the rate
\* and the echo tail, whatever their signs
C20_SizesCopiedFromFlags ==
    Accepted =>
        /\ config.FrameSize = flags.frameSize
        /\ config.SampleRate = flags.sampleRate
        /\ config.FilterLen = IF flags.filterLen > 0 THEN flags.filterLen
                              ELSE TruncDiv(flags.sampleRate * flags.echoTail, 1000)

\* q is the quotient of p by d as Go computes it: rounded toward zero
IsGoQuotient(q, p, d) == Abs(p - q * d) < d /\ Abs(q * d) <= Abs(p)

\* C21: the filter length of a returned configuration is the -filter-len value
\* when that is positive, and otherwise SampleRate * EchoTailMs / 1000 in
\* integer division: 3200 at 16000 Hz and 200 ms.
C21_FilterLength ==
    Accepted =>
        /\ flags.filterLen > 0 => config.FilterLen = flags.filterLen
        /\ flags.filterLen <= 0 =>
               IsGoQuotient(config.FilterLen,
                            config.SampleRate * config.EchoTailMs, 1000)
        /\ (/\ flags.filterLen <= 0
            /\ config.SampleRate = 16000
            /\ config.EchoTailMs = 200) => config.FilterLen = 3200

\* the defaults without -filter-len give 3200
C21_Witness ==
    /\ Accepted
    /\ flags.filterLen = 0 /\ flags.sampleRate = 16000 /\ flags.echoTail = 200
    /\ config.FilterLen = 3200

\* a quotient that is not exact is reached on both sides of zero
C21_InexactQuotients ==
    /\ Accepted
    /\ flags.filterLen <= 0
    /\ config.SampleRate * config.EchoTailMs = -1653750
    /\ config.FilterLen = -1653

\* C22: in the bypass mode no frame is decoded and no frame is encoded during
\* the whole run.
C22_BypassNeverUsesCodec ==
    (entry \in { "Process", "processAEC" } /\ config.Mode = ModeBypass) =>
        /\ obs.decodes = 0
        /\ obs.encodes = 0

\* a bypass run of Process has ended after decoding and encoding every frame
\* it wrote
C22_BypassUsedCodec ==
    /\ entry = "Process" /\ config.Mode = ModeBypass
    /\ pc = "done" /\ err = NoErr
    /\ obs.writes > 0
    /\ obs.decodes = obs.writes
    /\ obs.encodes = obs.writes

\* what the two loops do in the bypass mode: the near-end frame of every
\* iteration that reaches the conversion is decoded; processAEC then copies
\* the compressed frame and never encodes, Process encodes the decoded frame
C22_BypassCodecUse ==
    (entry \in { "Process", "processAEC" } /\ config.Mode = ModeBypass
       /\ pc \in { "read_mic", "done" }) =>
        /\ \/ obs.decodes = obs.writes
           \/ pc = "done" /\ err # NoErr /\ obs.decodes = obs.writes + 1
        /\ entry = "processAEC" => obs.encodes = 0
        /\ entry = "Process" => obs.encodes = obs.decodes

(***************************************************************************)
(* Properties of the retained far-end frame                                *)
(***************************************************************************)

\* the step ends the stage execution of an iteration successfully
StagesSucceeded == pc = "process" /\ pc' = "write"

\* C23: the retained far-end frame changes only in the step that ends a
\* successful stage execution, in a mode that needs the far end and with delay
\* compensation on, where it becomes a copy of the far-end frame decoded in
\* that iteration; reading, padding, decoding, a failed stage execution, the
\* end of the run and the next iteration's decoding into the far-end buffer
\* leave it as it is.
C23_RetainedFrameStep ==
    /\ (pc # "alloc" /\ prevSpeakerPcmFrame' # prevSpeakerPcmFrame) =>
          /\ StagesSucceeded
          /\ FarEnd
          /\ config.UsePrevSpeaker
    /\ (StagesSucceeded /\ FarEnd /\ config.UsePrevSpeaker) =>
          /\ prevSpeakerPcmFrame' = speakerPcmFrame
          /\ prevSpeakerPcmFrame' = obs.spkFrames[Len(obs.spkFrames)]
          /\ Len(obs.spkFrames) = frameCount + 1
          /\ speakerPcmFrame' = speakerPcmFrame
    /\ (pc = "convert" /\ pc' = "process" /\ FarEnd /\ config.UsePrevSpeaker
          /\ frameCount > 0) =>
          /\ prevSpeakerPcmFrame' = obs.spkFrames[frameCount]
          /\ speakerPcmFrame' = obs'.spkFrames[frameCount + 1]

C23_RetainedFrameUpdatedOnce == [][C23_RetainedFrameStep]_vars

\* the second iteration has decoded a different far-end frame into the reused
\* buffer, and the retained frame is still the first iteration's
C23_Witness ==
    /\ FarEnd
    /\ config.UsePrevSpeaker
    /\ pc = "process"
    /\ frameCount = 1
    /\ prevSpeakerPcmFrame = obs.spkFrames[1]
    /\ speakerPcmFrame = obs.spkFrames[2]
    /\ speakerPcmFrame # prevSpeakerPcmFrame

(***************************************************************************)
(* Properties of the NS-first chain                                        *)
(***************************************************************************)

\* the far-end frame getAECSpeakerFrame selects in the current iteration
SelectedFarFrame ==
    IF config.UsePrevSpeaker
    THEN IF frameCount = 0 THEN Zeroed(F) ELSE obs.spkFrames[frameCount]
    ELSE speakerPcmFrame

\* the scalar encoder applied to every sample of a frame
EncodedFrame(frame) == [i \in 1 .. Len(frame) |-> EncodeSample(frame[i])]

\* C24: in the NS-first mode the echo-only stage gets as near-end input the
\* frame the noise suppressor returned in the same iteration and as far-end
\* input the selected far-end frame; the frame encoded and written is the
\* echo-only stage's output; and when the noise suppressor fails the echo-only
\* stage is not invoked.
C24_NSOutputFeedsEcho ==
    config.Mode = ModeNSFirst =>
        /\ pc = "write" =>
              /\ Ops = << "ns", "echo" >>
              /\ calls[1].near = micPcmFrame
              /\ calls[1].out # << >>
              /\ calls[2].near = calls[1].out
              /\ calls[2].far = SelectedFarFrame
              /\ outputAlawFrame = EncodedFrame(calls[2].out)
        /\ (pc = "read_mic" /\ frameCount > 0) =>
              SubSeq(outFile, F * (frameCount - 1) + 1, F * frameCount)
                  = EncodedFrame(calls[2].out)
        /\ err.msg = "NS processing failed" =>
              /\ Ops = << "ns" >>
              /\ calls[1].out = << >>
        /\ \A i \in 1 .. Len(calls) :
              calls[i].op = "echo" => i = 2 /\ calls[1].op = "ns" /\ calls[1].out # << >>

\* the noise suppressor changed the second frame, and the echo canceller got
\* the changed frame
C24_Witness ==
    /\ config.Mode = ModeNSFirst
    /\ pc = "write"
    /\ frameCount = 1
    /\ calls[1].out # calls[1].near
    /\ calls[2].near = calls[1].out
    /\ calls[2].near # micPcmFrame

\* the noise suppressor has failed and the echo canceller was not called
C24_NSFailed ==
    /\ config.Mode = ModeNSFirst
    /\ pc = "done"
    /\ err.msg = "NS processing failed"
    /\ Ops = << "ns" >>

(***************************************************************************)
(* Properties of the codec's values                                        *)
(***************************************************************************)

\* a code has been decoded, by either implementation
Decoded == Len(chain) >= 2 /\ chain[1].k = "alaw"

\* C25 as stated: for every even code b (0, 2, ..., 254) decode(b) is
\* negative.
C25_EvenCodesNegative ==
    (Decoded /\ chain[1].v % 2 = 0) => chain[2].v < 0

\* C25 amended: the sign is carried by bit 0x80 of the code, not by its
\* lowest bit: decode(b) is negative for every b below 128 and positive for
\* every b from 128 up, whether b is even or odd, and never zero; so the even
\* codes 0 .. 126 decode to negative values and the even codes 128 .. 254 to
\* positive ones.
C25_SignBitDecides ==
    Decoded =>
        /\ chain[1].v < 128 => chain[2].v < 0
        /\ chain[1].v >= 128 => chain[2].v > 0

\* the even code 0xAA has been decoded to the largest positive level
C25_Witness ==
    /\ Decoded
    /\ chain[1].v = 170
    /\ chain[2].v = 32256

\* a sample has been encoded with the direct codec
EncodedDirect == cimpl = "direct" /\ Len(chain) >= 2 /\ chain[1].k = "pcm"

\* the vectors TestLinear2Alaw asserts: sample and expected code
ReferenceVectors ==
    { << 0, 213 >>, << 100, 211 >>, << -100, 83 >>, << 32767, 170 >>,
      << -32768, 42 >> }

\* C26: Linear2Alaw gives 0 -> 0xD5, 100 -> 0xD3, -100 -> 0x53, 32767 -> 0xAA
\* and -32768 -> 0x2A, the two extremes being the codes of the largest
\* magnitude of each sign; and for every 16-bit sample the code has bit 0x80
\* set exactly when the sample is >= 0.
C26_ReferenceVectors ==
    EncodedDirect =>
        /\ \A p \in ReferenceVectors : chain[1].v = p[1] => chain[2].v = p[2]
        /\ chain[2].v >= 128 <=> chain[1].v >= 0
        /\ chain[2].v \in Uint8
        /\ MagnitudeIndex(chain[2].v) = 127 <=>
              (chain[1].v >= 31744 \/ chain[1].v < -31744)

\* the most negative sample has been encoded to 0x2A
C26_Witness ==
    /\ EncodedDirect
    /\ chain[1].v = -32768
    /\ chain[2].v = 42

(***************************************************************************)
(* The two codec implementations compared                                  *)
(***************************************************************************)

\* C27: for every one of the 256 codes b the table-driven decoder of alaw.go
\* and the direct decoder Alaw2Linear return the same sample.
C27_DecodersAgree ==
    Decoded =>
        /\ cimpl = "table" => chain[2].v = Alaw2Linear(chain[1].v)
        /\ cimpl = "direct" => chain[2].v = AlawToPCM16(chain[1].v)
        /\ Len(alawDecodeTable) = 256

\* the table decoder has decoded the last code
C27_Witness ==
    /\ cimpl = "table"
    /\ Decoded
    /\ chain[1].v = 255
    /\ chain[2].v = Alaw2Linear(255)
    /\ chain[2].v = 848

\* a sample has been encoded, by either implementation
Encoded == Len(chain) >= 2 /\ chain[1].k = "pcm"

\* C28: for every 16-bit sample x the table-driven encoder PCM16ToAlaw of
\* alaw.go returns the same code as the direct encoder Linear2Alaw.
C28_EncodersAgree ==
    Encoded =>
        /\ cimpl = "table" => chain[2].v = Linear2Alaw(chain[1].v)
        /\ cimpl = "direct" => chain[2].v = PCM16ToAlaw(chain[1].v)

\* the table-driven encoder has encoded the sample 0 to 0x25, where
\* Linear2Alaw gives 0xD5
C28_Witness ==
    /\ cimpl = "table"
    /\ Encoded
    /\ chain[1].v = 0
    /\ chain[2].v = 37
    /\ Linear2Alaw(0) = 213

\* the two encoders give different codes for every sample, and the code of
\* the table-driven encoder has bit 0x80 set for the negative samples
C28_EncodersDisagreeEverywhere ==
    (Encoded /\ cimpl = "table") =>
        /\ chain[2].v # Linear2Alaw(chain[1].v)
        /\ chain[2].v >= 128 <=> chain[1].v < 0

(***************************************************************************)
(* Round trips of the direct codec                                         *)
(***************************************************************************)

\* C29: Linear2Alaw(Alaw2Linear(b)) = b for every one of the 256 codes b, and
\* so encoding again what was decoded changes nothing:
\* Linear2Alaw(Alaw2Linear(Linear2Alaw(x))) = Linear2Alaw(x) for every 16-bit
\* sample x.
C29_ByteRoundTripExact ==
    cimpl = "direct" =>
        /\ (Len(chain) >= 3 /\ chain[1].k = "alaw") => chain[3].v = chain[1].v
        /\ (Len(chain) >= 4 /\ chain[1].k = "pcm") => chain[4].v = chain[2].v

\* a sample that is not a decoder level has been encoded, decoded and encoded
\* again to the same code
C29_Witness ==
    /\ FromPcm(-9883)
    /\ Len(chain) = 4
    /\ chain[3].v # chain[1].v
    /\ chain[4].v = chain[2].v

\* a run of the codec test that ends without error has written its input,
\* padded with 0xD5 to whole frames, unchanged
C29_CodecTestCopiesInput ==
    (entry = "Process" /\ config.Mode = ModeTestAlaw /\ EndedClean) =>
        outFile = PadTo(micFile.data, F * Ceil(N, F))

\* a codec test run has written two frames, the second one padded
C29_CodecTestRan ==
    /\ entry = "Process" /\ config.Mode = ModeTestAlaw /\ EndedClean
    /\ frameCount = 2
    /\ N < 2 * F

\* the segment field of a code
SegmentOf(b) == (Xor8(b, 85) \div 16) % 8

\* the largest round-trip error in each segment, 0 to 7
SegmentMaxError == << 8, 8, 16, 32, 64, 128, 256, 512 >>

\* C30: for every 16-bit sample x the round-trip error
\* |Alaw2Linear(Linear2Alaw(x)) - x| is at most 512, and at most 8 when
\* -512 <= x <= 511; within segment s of the code it is at most 8, 8, 16, 32,
\* 64, 128, 256, 512 for s = 0 .. 7, a bound that never decreases with s.
C30_QuantizationErrorBound ==
    /\ \A s \in 1 .. 7 : SegmentMaxError[s] <= SegmentMaxError[s + 1]
    /\ RoundTripDone =>
          /\ RoundTripError <= 512
          /\ (chain[1].v >= -512 /\ chain[1].v <= 511) => RoundTripError <= 8
          /\ RoundTripError <= SegmentMaxError[SegmentOf(chain[2].v) + 1]

\* the bound of the top segment is met: 31744 comes back as 32256
C30_Witness ==
    /\ RoundTripDone
    /\ chain[1].v = 31744
    /\ SegmentOf(chain[2].v) = 7
    /\ RoundTripError = 512

(***************************************************************************)
(* Order and symmetry of the direct codec                                  *)
(***************************************************************************)

\* the sample x as the direct codec returns it after encoding and decoding
Quantized(x) == Alaw2Linear(Linear2Alaw(x))

\* samples every quantized value is compared with, besides its neighbour
OrderProbes == { -32768, -1, 0, 32767 }

\* C31: the quantizer preserves order: for 16-bit samples x <= y,
\* Alaw2Linear(Linear2Alaw(x)) <= Alaw2Linear(Linear2Alaw(y)).  It is stated
\* for every x against its successor x + 1, from which every pair x <= y
\* follows step by step, and against the probes.
C31_QuantizerMonotone ==
    RoundTripDone =>
        /\ chain[3].v = Quantized(chain[1].v)
        /\ chain[1].v < 32767 => chain[3].v <= Quantized(chain[1].v + 1)
        /\ \A y \in OrderProbes :
              /\ chain[1].v <= y => chain[3].v <= Quantized(y)
              /\ y <= chain[1].v => Quantized(y) <= chain[3].v

\* the step across zero: -1 comes back as -8, its successor 0 as 8
C31_Witness ==
    /\ RoundTripDone
    /\ chain[1].v = -1
    /\ chain[3].v = -8
    /\ Quantized(0) = 8

\* the code b with bit 0x80 flipped
FlipSign(b) == Xor8(b, 128)

\* C32: for every code b the decoder gives Alaw2Linear(b XOR 0x80) =
\* -Alaw2Linear(b); the result is positive exactly when bit 0x80 of b is set,
\* is never 0, and its magnitude lies in 8 .. 32256, within int16.
C32_DecoderSignSymmetry ==
    Decoded =>
        /\ Decode(cimpl, FlipSign(chain[1].v)) = -chain[2].v
        /\ chain[2].v > 0 <=> Bit(chain[1].v, 7) = 1
        /\ chain[2].v # 0
        /\ Abs(chain[2].v) \in 8 .. 32256
        /\ chain[2].v \in Int16

\* the code 0x2A has been decoded to -32256, the negative of what 0xAA gives
C32_Witness ==
    /\ Decoded
    /\ cimpl = "direct"
    /\ chain[1].v = 42
    /\ chain[2].v = -32256
    /\ Alaw2Linear(170) = 32256

(***************************************************************************)
(* Properties of the engines' use                                          *)
(***************************************************************************)

\* an engine has rejected a frame
EngineFailed == err.msg \in { "NS processing failed", "AEC processing failed" }

\* C33: in every iteration of a run of Process or processAEC every frame
\* handed to an engine operation (the decoded near-end frame, the noise
\* suppressor's output, the current or the retained far-end frame) has exactly
\* FrameSize samples, the size the engine was created with, so that no engine
\* operation fails on a length mismatch, the short last frame and the first
\* iteration with delay compensation included.
C33_FramesHaveEngineSize ==
    /\ ~EngineFailed
    /\ err.frame < 0
    /\ \A i \in 1 .. Len(calls) :
          /\ Len(calls[i].near) = F
          /\ Len(calls[i].out) = F
          /\ calls[i].op = "ns" => separateNS.frameSize = F
          /\ calls[i].op # "ns" => Len(calls[i].far) = F /\ aec.frameSize = F
    /\ pc = "process" =>
          /\ Len(micPcmFrame) = F
          /\ Len(speakerPcmFrame) = F
          /\ config.UsePrevSpeaker => Len(prevSpeakerPcmFrame) = F
          /\ aec.state = "live" => aec.frameSize = F
          /\ separateNS.state = "live" => separateNS.frameSize = F

\* the first iteration with delay compensation, on a short last frame, has
\* handed the zeroed retained frame to the echo canceller
C33_Witness ==
    /\ FarEnd
    /\ config.UsePrevSpeaker
    /\ pc = "write"
    /\ frameCount = 0
    /\ micBytesRead < F
    /\ FarOperands = { Zeroed(F) }
    /\ F = 2

(***************************************************************************)
(* Process with any mode value, the six modes and one outside them         *)
(***************************************************************************)

\* a ProcessingMode value that is none of the six constants
ModeUnknown == 6

InitModes ==
    \E mode \in Modes \cup { ModeUnknown }, fs \in 1 .. MaxFrame :
    \E prev \in BOOLEAN, n \in 0 .. MaxStream, m \in 0 .. MaxStream :
    \E base \in ByteBases :
        Start("Process", "direct", mode, fs, prev, base, n, m)

SpecModes == InitModes /\ [][Next]_vars

\* the modes whose processFrame case calls the echo canceller / the separate
\* noise suppressor
UsesAEC == { ModeAECOnly, ModeNSFirst, ModeAECFirst }
UsesNS == { ModeNSOnly, ModeNSFirst }

\* initializeComponents has returned nil and the frame loop is running
Initialized ==
    pc \in { "alloc", "read_mic", "read_speaker", "convert", "process", "write" }

\* C34: once initializeComponents has succeeded, the echo canceller exists
\* exactly in AECOnly, NSFirst and AECFirst and the separate noise suppressor
\* exactly in NSOnly and NSFirst, so every instance processFrame calls in the
\* mode exists and none exists that the mode never calls; for a mode value
\* outside the six initializeComponents fails, and no frame is read, processed
\* or written.
C34_EnginesMatchDispatch ==
    /\ Initialized =>
          /\ config.Mode \in Modes
          /\ aec.state = "live" <=> config.Mode \in UsesAEC
          /\ separateNS.state = "live" <=> config.Mode \in UsesNS
    /\ aec.state # "nil" => config.Mode \in UsesAEC
    /\ separateNS.state # "nil" => config.Mode \in UsesNS
    /\ \A i \in 1 .. Len(calls) :
          IF calls[i].op = "ns" THEN config.Mode \in UsesNS
          ELSE config.Mode \in UsesAEC
    /\ config.Mode \notin Modes =>
          /\ pc \in { "open", "init", "cleanup", "done" }
          /\ obs.micReads = 0 /\ obs.spkReads = 0
          /\ obs.engineCalls = 0 /\ obs.writes = 0
          /\ outFile = << >>
          /\ (pc = "done" /\ err.msg \notin { "failed to open mic file",
                                              "failed to open speaker file",
                                              "failed to create output file" })
                => err = Error("unknown processing mode")

\* a run with a mode outside the six has ended in initializeComponents
C34_Witness ==
    /\ config.Mode = ModeUnknown
    /\ pc = "done"
    /\ err = Error("unknown processing mode")
    /\ N > 0

\* NSFirst is running with both instances
C34_BothEngines ==
    /\ config.Mode = ModeNSFirst
    /\ pc = "write"
    /\ aec.state = "live" /\ separateNS.state = "live"
    /\ Ops = << "ns", "echo" >>

(***************************************************************************)
(* Validation and the pipeline on the far-end requirement                  *)
(***************************************************************************)

\* the command line gives a near-end path, no far-end path, no -help and at
\* most one mode flag: only the far-end requirement can reject it
OnlySpeakerMissing ==
    /\ pc = "parsed"
    /\ flags.mic # "" /\ flags.speaker = "" /\ ~flags.help
    /\ Cardinality(ModesSet) <= 1

\* C35: for each of the six modes validateConfig requires a far-end path
\* exactly when Processor.needsSpeakerFile is true for the mode, so that for
\* every configuration ParseFlags returns, the far-end stream the pipeline
\* opens and reads (it does so exactly when needsSpeakerFile is true) has a
\* validated, non-empty path.
C35_ValidationMatchesPipeline ==
    /\ OnlySpeakerMissing =>
          (Rejected <=> needsSpeakerFile([ Mode |-> SelectedMode ]))
    /\ Accepted =>
          /\ config.Mode \in Modes
          /\ needsSpeakerFile(config) <=> config.Mode \in SpeakerRequiredModes
          /\ needsSpeakerFile(config) => config.SpeakerFile # ""
          /\ config.MicFile # ""

\* the codec test is accepted without a far-end path, and needsSpeakerFile is
\* false for it
C35_Witness ==
    /\ OnlySpeakerMissing
    /\ Accepted
    /\ config.Mode = ModeTestAlaw
    /\ ~needsSpeakerFile(config)

\* the default mode is rejected when only the far-end path is missing
C35_AECFirstRejected ==
    /\ OnlySpeakerMissing
    /\ Rejected
    /\ SelectedMode = ModeAECFirst

(***************************************************************************)
(* The output at the iteration boundaries                                  *)
(***************************************************************************)

\* the loop is between two iterations: about to read the next near-end frame
Boundary == pc = "read_mic"

\* what holds between iterations, and in every state
WholeFramesWritten ==
    /\ Boundary =>
          /\ Len(outFile) = frameCount * F
          /\ frameCount = obs.writes
          /\ frameCount = obs.micReads
    /\ frameCount <= obs.micReads
    /\ frameCount <= Ceil(N, F)

\* the steps that change the frame counter or the output
OneFramePerIteration ==
    /\ (pc # "alloc" /\ frameCount' # frameCount) =>
          /\ pc = "write" /\ pc' = "read_mic"
          /\ frameCount' = frameCount + 1
          /\ Len(outputAlawFrame) = F
          /\ outFile' = outFile \o outputAlawFrame
    /\ (outFile' # outFile /\ pc' = "read_mic") =>
          /\ frameCount' = frameCount + 1
          /\ Len(outFile') = Len(outFile) + F

\* C36: at every iteration boundary, in every mode, the output holds
\* frameCount * FrameSize bytes, each completed iteration having appended one
\* whole frame, frameCount is the number of completed iterations, and
\* frameCount never exceeds the number of near-end frames read.
C36_WholeFramesAtBoundaries ==
    /\ [] WholeFramesWritten
    /\ [][OneFramePerIteration]_vars

\* two iterations are complete, the second on a short last frame
C36_Witness ==
    /\ Boundary
    /\ frameCount = 2
    /\ F = 2
    /\ N = 3
    /\ Len(outFile) = 4

(***************************************************************************)
(* Properties of the engines' destruction                                  *)
(***************************************************************************)

\* no instance has been destroyed twice, and none before the loop has ended
DestroyedAfterLoop ==
    /\ aec.destroys <= 1
    /\ separateNS.destroys <= 1
    /\ aec.state = "destroyed" <=> aec.destroys = 1
    /\ separateNS.state = "destroyed" <=> separateNS.destroys = 1
    /\ (aec.state = "destroyed" \/ separateNS.state = "destroyed") => pc = "done"

\* the instances an engine operation of the step is invoked on are live, and
\* an instance is destroyed only by the deferred calls, when it is live
EnginesUsedWhileLive ==
    /\ (\/ calls' # calls /\ calls' # << >>
        \/ obs'.engineCalls # obs.engineCalls) =>
          /\ pc = "process"
          /\ \A i \in 1 .. Len(calls') :
                IF calls'[i].op = "ns" THEN separateNS.state = "live"
                ELSE aec.state = "live"
          /\ aec' = aec /\ separateNS' = separateNS
    /\ aec'.destroys # aec.destroys => pc = "cleanup" /\ aec.state = "live"
    /\ separateNS'.destroys # separateNS.destroys =>
          pc = "cleanup" /\ separateNS.state = "live"

\* C37: in a run of Process each engine instance is destroyed at most once,
\* only after the frame loop has ended, normally or by a failure, and no
\* engine operation is invoked on an instance that has been destroyed.
C37_DestroyedOnceAfterLoop ==
    /\ [] DestroyedAfterLoop
    /\ [][EnginesUsedWhileLive]_vars

\* an NS-first run of Process has processed a frame and destroyed both
\* instances, each once
C37_Witness ==
    /\ entry = "Process"
    /\ config.Mode = ModeNSFirst
    /\ pc = "done"
    /\ frameCount >= 1
    /\ aec.destroys = 1
    /\ separateNS.destroys = 1

=============================================================================
